---- MODULE Spec2Model ----
(***************************************************************************)
(* Model of the semantic UI hierarchy pipeline of open-mobile-mcp:         *)
(*   src/src/perception/hierarchy.ts  (normalise + prune + flatten)        *)
(*   src/src/perception/element.ts    (find / wait / scroll controllers)   *)
(*                                                                         *)
(* Representation notes.                                                   *)
(*  - JavaScript strings are TLA+ strings; Len, \o and SubSeq act on them  *)
(*    as length, + and substring.                                          *)
(*  - A raw attribute that is missing and one that is the empty string are *)
(*    the same to the code (`attributes.text || ""`), so a raw attribute   *)
(*    record carries "" for both.                                          *)
(*  - A SimplifiedNode field that the code leaves out (`...(text ? {text}  *)
(*    : {})`) is "" for strings, FALSE for flags and <<>> for children:    *)
(*    the code never emits an empty string, a false flag or an empty child *)
(*    list, so nothing is lost.                                            *)
(***************************************************************************)
EXTENDS Integers, Sequences, FiniteSets, TLC

VARIABLES
    platform,     \* "android" | "ios": the platform argument of the call
    rawDoc,       \* parsed raw document of the dump (XML document / JSON root)
    hierarchy,    \* result of getSemanticHierarchy (Null: absent)
    rehierarchy,  \* result of pruning the read-back of `hierarchy`
    stage,        \* "raw" -> "pruned" -> "repruned" ("idle": no pruning run)
    query,        \* [selector, strategy] of a wait / scroll call
    now,          \* Date.now(), in ms
    timeoutMs,    \* waitForElement: the timeoutMs argument
    startTime,    \* waitForElement: const startTime
    wPc,          \* waitForElement: "start", "check", "find", "sleep", "done"
    polls,        \* waitForElement: outcome of every findElement so far
    sleeps,       \* waitForElement: timers that have fired
    sleptMs,      \* waitForElement: sum of the delays asked of setTimeout
    wResult,      \* waitForElement: what the call returned or threw
    direction,    \* scrollToElement: "up" | "down" | "left" | "right"
    maxScrolls,   \* scrollToElement: the maxScrolls argument
    scrollDurationMs, \* scrollToElement: the scrollDurationMs argument
    viewport,     \* scrollToElement: what getViewport returned
    swipeCoords,  \* scrollToElement: x1, y1, x2, y2, each TWICE the JS value
                  \*   (scrollDistance / 2 is a half when the distance is odd)
    loopI,        \* scrollToElement: the loop counter `i`
    sPc,          \* scrollToElement: "initial", "viewport", "loop", "swipe",
                  \*   "delay", "requery", "done"
    log,          \* scrollToElement: collaborator calls made, in order
    sResult,      \* scrollToElement: what the call returned or threw
    boundsArg,    \* parseBounds: the bounds argument
    boundsOut,    \* parseBounds: what the call returned
    boundsCase,   \* parseBounds: how boundsArg was written (numbers, defect)
    matches,      \* findElement: the list the call returned
    fPc,          \* parseBounds / findElement: "start", "done", "failed"
    tPc,          \* tapOnElement: "find", "tap", "done"
    tElement,     \* tapOnElement: const element = elements[0]
    taps,         \* tapOnElement: the deviceTap calls made, in order
    tResult,      \* tapOnElement: what the call returned or threw
    rawOutput,    \* getSemanticHierarchy (iOS): stdout of `maestro hierarchy`
    iosCase,      \* getSemanticHierarchy (iOS): how rawOutput was written
    iPc,          \* getSemanticHierarchy (iOS): "dump", "parse", "done"
    dumps,        \* getSemanticHierarchy (iOS): runs of `maestro hierarchy`
    pruneRuns,    \* getSemanticHierarchy (iOS): calls of the pruner on the root
    iResult,      \* getSemanticHierarchy (iOS): returned / thrown
    typeText,     \* deviceType: the text argument, as its code points
    activeIme,    \* device: the input method that is selected
    imeAtCall,    \* device: the input method selected when deviceType began
    adbKeyboardInstalled, \* device: com.android.adbkeyboard is installed
    hasAdbKeyboard,       \* deviceType: let hasAdbKeyboard
    kPc,          \* deviceType: "start", "inputText", "pmList", "imeSet",
                  \*   "broadcast", "maestro", "done"
    kLog,         \* deviceType: commands run, in order
    kResult,      \* deviceType: "returned" | "threw"
    globalDefaultLanguage, \* ocr.ts: let globalDefaultLanguage
    oArg,         \* getScreenText in flight: its language argument ("": none)
    oPc,          \* getScreenText in flight: "idle", "viewport", "worker"
    ocrLog,       \* configureOcr / getScreenText: what happened, in order
    androidLogProcess, \* part_002: let androidLogProcess (0: null, else the
                       \*   index of the child process in `procs`)
    iosLogProcess,     \* part_002: let iosLogProcess
    metroProcess,      \* part_002: let metroProcess
    procs,        \* every child process spawned so far: what it runs and
                  \*   whether it is "running", "killed" (signal sent, exit
                  \*   event still to come) or "exited"
    bPc           \* manageBundler in flight: its arguments while it awaits
                  \*   the port clean-up (NoCall: no call in flight)

pvars == <<rawDoc, hierarchy, rehierarchy, stage>>
wvars == <<timeoutMs, startTime, wPc, polls, sleeps, sleptMs, wResult>>
svars == <<direction, maxScrolls, scrollDurationMs, viewport, swipeCoords, loopI,
           sPc, log, sResult>>
fvars == <<boundsArg, boundsCase, boundsOut, matches, fPc>>
tvars == <<tPc, tElement, taps, tResult>>
ivars == <<rawOutput, iosCase, iPc, dumps, pruneRuns, iResult>>
kvars == <<typeText, activeIme, imeAtCall, adbKeyboardInstalled,
           hasAdbKeyboard, kPc, kLog, kResult>>
ovars == <<globalDefaultLanguage, oArg, oPc, ocrLog>>
lvars == <<androidLogProcess, iosLogProcess, metroProcess, procs, bPc>>
xvars == <<fvars, tvars, ivars, kvars, ovars>>
vars == <<platform, pvars, query, now, wvars, svars, xvars, lvars>>

(***************************************************************************)
(* Bounds of the model.                                                    *)
(***************************************************************************)
MaxNodes == 3      \* nodes in one raw tree
MaxTimeoutSec == 3 \* largest explicit timeoutMs, in seconds
MaxScrollsArg == 3 \* largest explicit maxScrolls
MaxCoord == 2      \* bounds strings: every coordinate 0..MaxCoord is tried
MaxTypeLen == 2    \* deviceType: characters in the text
MaxOcrEvents == 4  \* configureOcr / getScreenText: events before the last call
MaxSpawns == 4     \* child processes spawned in one run of the server

(***************************************************************************)
(* Program constants.                                                      *)
(***************************************************************************)
MaxTextLen == 50   \* hierarchy.ts:192 / :108  `text.length > 50`
DefaultTimeoutMs == 10000  \* element.ts:136  `timeoutMs: number = 10000`
DefaultMaxScrolls == 5     \* element.ts:252  `maxScrolls: number = 5`
DefaultScrollDurationMs == 300  \* element.ts:253
IosScaleFactor == 3        \* element.ts:273  `platform === "ios" ? 3 : 1`
IosSettleMs == 1500        \* element.ts:332
AndroidSettleExtraMs == 200     \* element.ts:332  `scrollDurationMs + 200`
PollIntervalShort == 10 * 10   \* variant of PollIntervalMs: a 0.1 s interval
PollIntervalMs == 1000     \* element.ts:146  `setTimeout(resolve, 1000)`

Null == [isNull |-> TRUE]
NotStarted == [notStarted |-> TRUE]

(***************************************************************************)
(* String helpers: String.prototype.includes / substring(0, n).            *)
(***************************************************************************)
includes(s, sub) ==
    \E i \in 1..(Len(s) - Len(sub) + 1) : SubSeq(s, i, i + Len(sub) - 1) = sub

\* `if (text.length > 50) text = text.substring(0, 50) + "..."`
truncateText(text) ==
    IF Len(text) > MaxTextLen THEN SubSeq(text, 1, MaxTextLen) \o "..." ELSE text

(***************************************************************************)
(* SimplifiedNode literal built at the end of both pruning functions.      *)
(***************************************************************************)
SimplifiedNode(type, text, resourceId, contentDesc, bounds, clickable, enabled, focused, selected, children) ==
    [type |-> type, text |-> text, resourceId |-> resourceId,
     contentDesc |-> contentDesc, bounds |-> bounds,
     clickable |-> clickable, enabled |-> enabled, focused |-> focused,
     selected |-> selected, children |-> children]

\* Variant: a clickable container is never collapsed.
FlattenOnlyNonClickable(clickable, child) == ~clickable

\* Variant: the `!clickable ||` alternative is lost.
FlattenOnlyClickable(clickable, child) ==
    /\ clickable
    /\ \/ child.clickable
       \/ includes(child.type, "Button")
       \/ includes(child.type, "Text")

\* Variant: the exception for a clickable container is lost, every generic
\* single-child node is collapsed.
FlattenAlways(clickable, child) == TRUE

\* The flattening decision shared verbatim by both engines:
\*   !clickable || (clickable && (child.clickable ||
\*       child.type.includes("Button") || child.type.includes("Text")))
FlattenAllowed(clickable, child) ==
    \/ ~clickable
    \/ /\ clickable
       /\ \/ child.clickable
          \/ includes(child.type, "Button")
          \/ includes(child.type, "Text")

\* Variant: the pruning rule takes bounds for identity and keeps a leaf that
\* has nothing but bounds.
SimplifyDecisionKeepsBounds(type, text, resourceId, contentDesc, bounds, clickable, enabled, focused, selected, children) ==
    LET hasContent == text # "" \/ contentDesc # ""
        isLeaf == Len(children) = 0
        isGeneric == resourceId = "" /\ ~hasContent
    IN  IF ~isLeaf /\ Len(children) = 1 /\ isGeneric
           /\ FlattenAllowed(clickable, children[1])
        THEN children[1]
        ELSE IF isLeaf /\ ~hasContent /\ ~clickable /\ resourceId = ""
                /\ bounds = ""
        THEN Null
        ELSE SimplifiedNode(type, text, resourceId, contentDesc, bounds,
                            clickable, enabled, focused, selected, children)

\* Variant: the pruning rule forgets `!hasContent` and drops every leaf that
\* is neither clickable nor identified, text or not.
SimplifyDecisionDropsContentLeaf(type, text, resourceId, contentDesc, bounds, clickable, enabled, focused, selected, children) ==
    LET hasContent == text # "" \/ contentDesc # ""
        isLeaf == Len(children) = 0
        isGeneric == resourceId = "" /\ ~hasContent
    IN  IF ~isLeaf /\ Len(children) = 1 /\ isGeneric
           /\ FlattenAllowed(clickable, children[1])
        THEN children[1]
        ELSE IF isLeaf /\ ~clickable /\ resourceId = ""
        THEN Null
        ELSE SimplifiedNode(type, text, resourceId, contentDesc, bounds,
                            clickable, enabled, focused, selected, children)

\* Everything after the children loop: flattening rule, pruning rule, literal.
SimplifyDecision(type, text, resourceId, contentDesc, bounds, clickable, enabled, focused, selected, children) ==
    LET hasContent == text # "" \/ contentDesc # ""
        isLeaf == Len(children) = 0
        isGeneric == resourceId = "" /\ ~hasContent
    IN  IF ~isLeaf /\ Len(children) = 1 /\ isGeneric
           /\ FlattenAllowed(clickable, children[1])
        THEN children[1]
        ELSE IF isLeaf /\ ~hasContent /\ ~clickable /\ resourceId = ""
        THEN Null
        ELSE SimplifiedNode(type, text, resourceId, contentDesc, bounds,
                            clickable, enabled, focused, selected, children)

(***************************************************************************)
(* pruneAndSimplifyAndroidNode: raw node = [attr |-> node.$, node |-> kids] *)
(***************************************************************************)
RECURSIVE pruneAndSimplifyAndroidNode(_)
RECURSIVE AndroidChildren(_)

\* for (const child of node.node) { result = prune(child); if (result) push }
AndroidChildren(kids) ==
    IF kids = <<>> THEN <<>>
    ELSE LET result == pruneAndSimplifyAndroidNode(Head(kids))
         IN  (IF result # Null THEN <<result>> ELSE <<>>)
             \o AndroidChildren(Tail(kids))

\* Variant: leafness is read from the raw child list (`!node.node`) instead
\* of the pruned one, so a container whose children were all dropped stays.
pruneAndSimplifyAndroidNodeRawLeaf(node) ==
    LET attributes == node.attr
        text == truncateText(attributes.text)
        type == IF attributes.class # "" THEN attributes.class ELSE "unknown"
        children == AndroidChildren(node.node)
    IN  IF node.node # <<>> /\ children = <<>>
        THEN SimplifiedNode(type, text, attributes.resource_id,
                 attributes.content_desc, attributes.bounds,
                 attributes.clickable = "true", attributes.enabled = "true",
                 attributes.focused = "true", attributes.selected = "true",
                 <<>>)
        ELSE SimplifyDecision(type, text, attributes.resource_id,
                 attributes.content_desc, attributes.bounds,
                 attributes.clickable = "true", attributes.enabled = "true",
                 attributes.focused = "true", attributes.selected = "true",
                 children)

pruneAndSimplifyAndroidNode(node) ==
    LET attributes == node.attr
        text == truncateText(attributes.text)
        resourceId == attributes.resource_id
        contentDesc == attributes.content_desc
        bounds == attributes.bounds
        type == IF attributes.class # "" THEN attributes.class ELSE "unknown"
        clickable == attributes.clickable = "true"
        enabled == attributes.enabled = "true"
        focused == attributes.focused = "true"
        selected == attributes.selected = "true"
        children == AndroidChildren(node.node)
    IN  SimplifyDecision(type, text, resourceId, contentDesc, bounds,
                         clickable, enabled, focused, selected, children)

(***************************************************************************)
(* pruneAndSimplifyMaestroNode: raw node = [attributes, children, flags]   *)
(***************************************************************************)
RECURSIVE pruneAndSimplifyMaestroNode(_)
RECURSIVE MaestroChildren(_)

MaestroChildren(kids) ==
    IF kids = <<>> THEN <<>>
    ELSE LET result == pruneAndSimplifyMaestroNode(Head(kids))
         IN  (IF result # Null THEN <<result>> ELSE <<>>)
             \o MaestroChildren(Tail(kids))

\* a || b || c || d || "" on strings: the first non-empty one
FirstNonEmpty(seq) ==
    LET idx == {i \in 1..Len(seq) : seq[i] # ""}
    IN  IF idx = {} THEN ""
        ELSE seq[CHOOSE i \in idx : \A j \in idx : i <= j]

pruneAndSimplifyMaestroNode(node) ==
    LET attributes == node.attributes
        text == truncateText(FirstNonEmpty(<<attributes.text,
                    attributes.accessibilityText, attributes.title,
                    attributes.value>>))
        resourceId == attributes.resource_id
        contentDesc == FirstNonEmpty(<<attributes.accessibilityText,
                                       attributes.hintText>>)
        bounds == attributes.bounds
        type == "UIElement"
        clickable == node.clickable = TRUE
        enabled == node.enabled = TRUE
        focused == node.focused = TRUE
        selected == node.selected = TRUE
        children == MaestroChildren(node.children)
    IN  SimplifyDecision(type, text, resourceId, contentDesc, bounds,
                         clickable, enabled, focused, selected, children)

(***************************************************************************)
(* getSemanticHierarchy, after the raw dump has been parsed.               *)
(*   android: rootNode = result.hierarchy?.node?.[0] || result.hierarchy   *)
(*   ios:     the parsed JSON object is the root                           *)
(* An Android document is [node |-> <<top-level nodes>>]; with no <node>   *)
(* the <hierarchy> element itself (no text, id, desc, class) is the root.  *)
(***************************************************************************)
EmptyAndroidAttr ==
    [text |-> "", resource_id |-> "", content_desc |-> "", bounds |-> "",
     class |-> "", clickable |-> "", enabled |-> "", focused |-> "",
     selected |-> ""]

AndroidRootNode(doc) ==
    IF Len(doc.node) > 0 THEN doc.node[1]
    ELSE [attr |-> EmptyAndroidAttr, node |-> <<>>]

getSemanticHierarchy(plat, doc) ==
    IF plat = "android"
    THEN pruneAndSimplifyAndroidNode(AndroidRootNode(doc))
    ELSE pruneAndSimplifyMaestroNode(doc)

(***************************************************************************)
(* parseBounds: bounds.match(/\[(\d+),(\d+)\]\[(\d+),(\d+)\]/), parseInt   *)
(* of the four groups, centre by Math.round, size by subtraction.          *)
(***************************************************************************)
CharAt(s, i) == IF i >= 1 /\ i <= Len(s) THEN SubSeq(s, i, i) ELSE ""
Digits == <<"0", "1", "2", "3", "4", "5", "6", "7", "8", "9">>
IsDigit(c) == \E d \in 1..10 : Digits[d] = c
DigitValue(c) == (CHOOSE d \in 1..10 : Digits[d] = c) - 1

\* last index of the maximal run of digits that starts at i (i - 1 if none)
RECURSIVE DigitRunEnd(_, _)
DigitRunEnd(s, i) ==
    IF IsDigit(CharAt(s, i)) THEN DigitRunEnd(s, i + 1) ELSE i - 1

\* parseInt of the digit string s[from..to]
RECURSIVE parseInt(_, _, _)
parseInt(s, from, to) ==
    IF to < from THEN 0
    ELSE 10 * parseInt(s, from, to - 1) + DigitValue(CharAt(s, to))

\* variant: Math.floor(n / d)
FloorDiv(n, d) == n \div d

\* Math.round(n / d) for n >= 0, d > 0: halves round up
RoundDiv(n, d) == (2 * n + d) \div (2 * d)

\* the regular expression tried at start index i: the four digit runs, or
\* <<>> when it does not match there
BoundsMatchAt(s, i) ==
    LET a1 == i + 1            a2 == DigitRunEnd(s, a1)
        b1 == a2 + 2           b2 == DigitRunEnd(s, b1)
        c1 == b2 + 3           c2 == DigitRunEnd(s, c1)
        d1 == c2 + 2           d2 == DigitRunEnd(s, d1)
    IN  IF /\ CharAt(s, i) = "["       /\ a2 >= a1
           /\ CharAt(s, a2 + 1) = ","  /\ b2 >= b1
           /\ CharAt(s, b2 + 1) = "]"  /\ CharAt(s, b2 + 2) = "["
           /\ c2 >= c1
           /\ CharAt(s, c2 + 1) = ","  /\ d2 >= d1
           /\ CharAt(s, d2 + 1) = "]"
        THEN <<parseInt(s, a1, a2), parseInt(s, b1, b2),
               parseInt(s, c1, c2), parseInt(s, d1, d2)>>
        ELSE <<>>

parseBounds(bounds) ==
    LET starts == {i \in 1..Len(bounds) : BoundsMatchAt(bounds, i) # <<>>}
    IN  IF starts = {} THEN Null
        ELSE LET m == BoundsMatchAt(bounds,
                          CHOOSE i \in starts : \A j \in starts : i <= j)
                 left == m[1]   top == m[2]   right == m[3]   bottom == m[4]
             IN  [left |-> left, top |-> top, right |-> right,
                  bottom |-> bottom,
                  centerX |-> RoundDiv(left + right, 2),
                  centerY |-> RoundDiv(top + bottom, 2),
                  width |-> right - left, height |-> bottom - top]

(***************************************************************************)
(* findElement: pre-order traversal of the pruned tree, match by strategy, *)
(* copy without children, merge the parsed bounds.                         *)
(***************************************************************************)
UpperCase == "ABCDEFGHIJKLMNOPQRSTUVWXYZ"
LowerCase == "abcdefghijklmnopqrstuvwxyz"

RECURSIVE toLowerCase(_)
toLowerCase(s) ==
    IF s = "" THEN ""
    ELSE LET c == SubSeq(s, 1, 1)
             up == {i \in 1..Len(UpperCase) : SubSeq(UpperCase, i, i) = c}
         IN  (IF up = {} THEN c
              ELSE LET i == CHOOSE i \in up : TRUE IN SubSeq(LowerCase, i, i))
             \o toLowerCase(SubSeq(s, 2, Len(s)))

endsWith(s, suffix) ==
    /\ Len(suffix) <= Len(s)
    /\ SubSeq(s, Len(s) - Len(suffix) + 1, Len(s)) = suffix

\* Variant: every strategy looks at all three attributes, with the text rule.
MatchesAnyAttribute(node, selector, strategy) ==
    \E value \in {node.resourceId, node.text, node.contentDesc} :
        value # "" /\ includes(toLowerCase(value), toLowerCase(selector))

Matches(node, selector, strategy) ==
    CASE strategy = "testId" ->
            node.resourceId # "" /\ endsWith(node.resourceId, selector)
      [] strategy = "text" ->
            node.text # ""
              /\ includes(toLowerCase(node.text), toLowerCase(selector))
      [] strategy = "contentDescription" ->
            node.contentDesc # ""
              /\ includes(toLowerCase(node.contentDesc), toLowerCase(selector))
      [] OTHER -> FALSE

\* Variant: the coordinate fields are written even when parseBounds gave
\* nothing (they are then undefined, shown as -1).
ElementWithAllFields(node) ==
    LET cleanNode == [f \in (DOMAIN node) \ {"children"} |-> node[f]]
        parsed == IF cleanNode.bounds # "" THEN parseBounds(cleanNode.bounds)
                  ELSE Null
    IN  IF parsed # Null THEN cleanNode @@ parsed
        ELSE cleanNode @@ [left |-> -1, top |-> -1, right |-> -1, bottom |-> -1,
                           centerX |-> -1, centerY |-> -1, width |-> -1,
                           height |-> -1]

\* { children, ...cleanNode } = node, then the eight coordinate fields when
\* cleanNode.bounds is there and parses
ElementWithCoordinates(node) ==
    LET cleanNode == [f \in (DOMAIN node) \ {"children"} |-> node[f]]
        parsed == IF cleanNode.bounds # "" THEN parseBounds(cleanNode.bounds)
                  ELSE Null
    IN  IF parsed # Null THEN cleanNode @@ parsed ELSE cleanNode

\* Variant: the children of a matching node are not visited.
RECURSIVE traverseStopAtMatch(_, _, _)
traverseStopAtMatch(node, selector, strategy) ==
    LET RECURSIVE Kids(_)
        Kids(i) == IF i > Len(node.children) THEN <<>>
                   ELSE traverseStopAtMatch(node.children[i], selector, strategy)
                        \o Kids(i + 1)
    IN  IF Matches(node, selector, strategy)
        THEN <<ElementWithCoordinates(node)>> ELSE Kids(1)

RECURSIVE traverse(_, _, _)
traverse(node, selector, strategy) ==
    LET RECURSIVE Kids(_)
        Kids(i) == IF i > Len(node.children) THEN <<>>
                   ELSE traverse(node.children[i], selector, strategy)
                        \o Kids(i + 1)
    IN  (IF Matches(node, selector, strategy)
         THEN <<ElementWithCoordinates(node)>> ELSE <<>>) \o Kids(1)

\* findElement on the raw document the device dumps for this call
findElement(plat, doc, selector, strategy) ==
    LET root == getSemanticHierarchy(plat, doc)
    IN  IF root = Null THEN <<>> ELSE traverse(root, selector, strategy)

(***************************************************************************)
(* Raw inputs: attribute profiles of single nodes, and all ordered trees   *)
(* of at most MaxNodes nodes over them.                                    *)
(***************************************************************************)
LongText == "The quick brown fox jumps over the lazy dog and keeps running"

AndroidAttrs ==
    { [EmptyAndroidAttr EXCEPT !.class = "android.widget.FrameLayout",
                               !.bounds = "[0,0][1080,1920]",
                               !.enabled = "true"],
      [EmptyAndroidAttr EXCEPT !.class = "android.view.ViewGroup",
                               !.clickable = "true",
                               !.bounds = "[10,20][110,120]"],
      [EmptyAndroidAttr EXCEPT !.class = "android.widget.TextView",
                               !.text = "OK", !.clickable = "false"],
      [EmptyAndroidAttr EXCEPT !.class = "android.widget.ImageView",
                               !.content_desc = "icon"],
      [EmptyAndroidAttr EXCEPT !.resource_id = "com.app:id/list",
                               !.focused = "true"],
      [EmptyAndroidAttr EXCEPT !.class = "android.widget.Button",
                               !.text = LongText, !.clickable = "true",
                               !.selected = "true"],
      [EmptyAndroidAttr EXCEPT !.class = "android.view.View",
                               !.text = " "] }

EmptyMaestroAttr ==
    [text |-> "", accessibilityText |-> "", title |-> "", value |-> "",
     resource_id |-> "", hintText |-> "", bounds |-> ""]

MaestroNode(attributes, clickable, enabled, focused, selected) ==
    [attributes |-> attributes, clickable |-> clickable, enabled |-> enabled,
     focused |-> focused, selected |-> selected]

MaestroAttrs ==
    { MaestroNode(EmptyMaestroAttr, FALSE, FALSE, FALSE, FALSE),
      MaestroNode([EmptyMaestroAttr EXCEPT !.bounds = "[0,0][390,844]"],
                  TRUE, TRUE, FALSE, FALSE),
      MaestroNode([EmptyMaestroAttr EXCEPT !.text = "OK"],
                  FALSE, TRUE, FALSE, FALSE),
      MaestroNode([EmptyMaestroAttr EXCEPT !.accessibilityText = "Login"],
                  TRUE, TRUE, FALSE, TRUE),
      MaestroNode([EmptyMaestroAttr EXCEPT !.hintText = "Email",
                                           !.resource_id = "email_field"],
                  FALSE, TRUE, TRUE, FALSE),
      MaestroNode([EmptyMaestroAttr EXCEPT !.title = LongText,
                                           !.value = "v"],
                  FALSE, FALSE, FALSE, FALSE) }

AndroidNode(a, kids) == [attr |-> a, node |-> kids]
MaestroTreeNode(m, kids) ==
    [attributes |-> m.attributes, children |-> kids, clickable |-> m.clickable,
     enabled |-> m.enabled, focused |-> m.focused, selected |-> m.selected]

RECURSIVE AndroidTrees(_)
RECURSIVE AndroidForests(_)
\* ordered forests with exactly n nodes in total
AndroidForests(n) ==
    IF n = 0 THEN {<<>>}
    ELSE UNION { { <<t>> \o f : t \in AndroidTrees(i),
                                f \in AndroidForests(n - i) } : i \in 1..n }
\* trees with exactly n nodes
AndroidTrees(n) ==
    { AndroidNode(a, kids) : a \in AndroidAttrs, kids \in AndroidForests(n - 1) }

RECURSIVE MaestroTrees(_)
RECURSIVE MaestroForests(_)
MaestroForests(n) ==
    IF n = 0 THEN {<<>>}
    ELSE UNION { { <<t>> \o f : t \in MaestroTrees(i),
                                f \in MaestroForests(n - i) } : i \in 1..n }
MaestroTrees(n) ==
    { MaestroTreeNode(m, kids) : m \in MaestroAttrs,
                                 kids \in MaestroForests(n - 1) }

\* the documents a dump of at most `max` nodes can parse to
AndroidDocuments(max) ==
    {[node |-> <<>>]}
      \cup { [node |-> <<t>>] : t \in UNION {AndroidTrees(n) : n \in 1..max} }
MaestroDocuments(max) == UNION { MaestroTrees(n) : n \in 1..max }

(***************************************************************************)
(* Reading a pruned tree back as a raw document of the same platform.      *)
(* Android: every SimplifiedNode field has one raw attribute.  Maestro:    *)
(* accessibilityText feeds both text and contentDesc, so text is read back *)
(* as `text` and contentDesc as `hintText`, each of which feeds one field. *)
(***************************************************************************)
Flag(b) == IF b THEN "true" ELSE ""

RECURSIVE AndroidReadBack(_)
AndroidReadBack(n) ==
    [attr |-> [text |-> n.text, resource_id |-> n.resourceId,
               content_desc |-> n.contentDesc, bounds |-> n.bounds,
               class |-> n.type, clickable |-> Flag(n.clickable),
               enabled |-> Flag(n.enabled), focused |-> Flag(n.focused),
               selected |-> Flag(n.selected)],
     node |-> [i \in 1..Len(n.children) |-> AndroidReadBack(n.children[i])]]

RECURSIVE MaestroReadBack(_)
MaestroReadBack(n) ==
    [attributes |-> [EmptyMaestroAttr EXCEPT !.text = n.text,
                                             !.resource_id = n.resourceId,
                                             !.hintText = n.contentDesc,
                                             !.bounds = n.bounds],
     children |-> [i \in 1..Len(n.children) |-> MaestroReadBack(n.children[i])],
     clickable |-> n.clickable, enabled |-> n.enabled,
     focused |-> n.focused, selected |-> n.selected]

ReadBack(plat, h) ==
    IF plat = "android"
    THEN (IF h = Null THEN [node |-> <<>>] ELSE [node |-> <<AndroidReadBack(h)>>])
    ELSE (IF h = Null THEN MaestroTreeNode(
                               MaestroNode(EmptyMaestroAttr, FALSE, FALSE, FALSE, FALSE), <<>>)
          ELSE MaestroReadBack(h))

(***************************************************************************)
(* Pruning specification: one raw document, pruned, then pruned again.     *)
(***************************************************************************)
NoCall == [notCalled |-> TRUE]

WaitIdle ==
    /\ timeoutMs = 0 /\ startTime = 0 /\ wPc = "idle" /\ polls = <<>>
    /\ sleeps = 0 /\ sleptMs = 0 /\ wResult = NoCall

ScrollIdle ==
    /\ direction = "down" /\ maxScrolls = 0 /\ scrollDurationMs = 0
    /\ viewport = NoCall /\ swipeCoords = NoCall /\ loopI = 0 /\ sPc = "idle"
    /\ log = <<>> /\ sResult = NoCall

FindIdle ==
    /\ boundsArg = "" /\ boundsCase = NoCall /\ boundsOut = NoCall
    /\ matches = NoCall /\ fPc = "idle"

TapIdle ==
    /\ tPc = "idle" /\ tElement = NoCall /\ taps = <<>> /\ tResult = NoCall

IosIdle ==
    /\ rawOutput = "" /\ iosCase = NoCall /\ iPc = "idle" /\ dumps = 0
    /\ pruneRuns = 0 /\ iResult = NoCall

TypeIdle ==
    /\ typeText = <<>> /\ activeIme = "none" /\ imeAtCall = "none"
    /\ adbKeyboardInstalled = FALSE /\ hasAdbKeyboard = FALSE
    /\ kPc = "idle" /\ kLog = <<>> /\ kResult = NoCall

OcrIdle ==
    /\ globalDefaultLanguage = "eng" /\ oArg = "" /\ oPc = "idle"
    /\ ocrLog = <<>>

LogsIdle ==
    /\ androidLogProcess = 0 /\ iosLogProcess = 0 /\ metroProcess = 0
    /\ procs = <<>> /\ bPc = NoCall

\* nothing but the call under study is going on
OthersIdle == TypeIdle /\ OcrIdle

XIdle == FindIdle /\ TapIdle /\ IosIdle /\ OthersIdle

InitPrune ==
    /\ LogsIdle
    /\ query = NoCall /\ now = 0 /\ WaitIdle /\ ScrollIdle /\ XIdle
    /\ platform \in {"android", "ios"}
    /\ rawDoc \in (IF platform = "android" THEN AndroidDocuments(MaxNodes)
                    ELSE MaestroDocuments(MaxNodes))
    /\ hierarchy = NotStarted
    /\ rehierarchy = NotStarted
    /\ stage = "raw"

GetSemanticHierarchy ==
    /\ stage = "raw"
    /\ hierarchy' = getSemanticHierarchy(platform, rawDoc)
    /\ stage' = "pruned"
    /\ UNCHANGED <<xvars, lvars, platform, rawDoc, rehierarchy, query, now, wvars, svars>>

GetSemanticHierarchyAgain ==
    /\ stage = "pruned"
    /\ rehierarchy' = getSemanticHierarchy(platform, ReadBack(platform, hierarchy))
    /\ stage' = "repruned"
    /\ UNCHANGED <<xvars, lvars, platform, rawDoc, hierarchy, query, now, wvars, svars>>

NextPrune == GetSemanticHierarchy \/ GetSemanticHierarchyAgain

SpecPrune == InitPrune /\ [][NextPrune]_vars

(***************************************************************************)
(* Vocabulary of the pruning claims.                                       *)
(***************************************************************************)
Pruned == stage # "raw"

\* every node of a pruned tree (the empty set for the absent tree)
RECURSIVE NodesOf(_)
NodesOf(n) ==
    IF n = Null THEN {}
    ELSE {n} \cup UNION { NodesOf(n.children[i]) : i \in 1..Len(n.children) }

RECURSIVE NodeCount(_)
NodeCount(n) ==
    IF n = Null THEN 0
    ELSE LET RECURSIVE Sum(_)
             Sum(i) == IF i = 0 THEN 0
                       ELSE NodeCount(n.children[i]) + Sum(i - 1)
         IN  1 + Sum(Len(n.children))

HasIdentityOrContent(n) == n.resourceId # "" \/ n.text # "" \/ n.contentDesc # ""

\* the raw root and the raw children of a raw node, per platform
RawRoot == IF platform = "android" THEN AndroidRootNode(rawDoc) ELSE rawDoc
RawKids(r) == IF platform = "android" THEN r.node ELSE r.children

\* what the normaliser reads from one raw node, before any pruning
RawText(r) ==
    IF platform = "android" THEN r.attr.text
    ELSE FirstNonEmpty(<<r.attributes.text, r.attributes.accessibilityText,
                         r.attributes.title, r.attributes.value>>)
RawDesc(r) ==
    IF platform = "android" THEN r.attr.content_desc
    ELSE FirstNonEmpty(<<r.attributes.accessibilityText, r.attributes.hintText>>)
RawId(r) ==
    IF platform = "android" THEN r.attr.resource_id ELSE r.attributes.resource_id
RawClickable(r) ==
    IF platform = "android" THEN r.attr.clickable = "true" ELSE r.clickable
RawType(r) ==
    IF platform = "android"
    THEN (IF r.attr.class = "" THEN "unknown" ELSE r.attr.class)
    ELSE "UIElement"
RawInteresting(r) ==
    RawText(r) # "" \/ RawDesc(r) # "" \/ RawId(r) # "" \/ RawClickable(r)

RECURSIVE RawNodesOf(_)
RawNodesOf(r) ==
    {r} \cup UNION { RawNodesOf(RawKids(r)[i]) : i \in 1..Len(RawKids(r)) }

RECURSIVE RawNodeCount(_)
RawNodeCount(r) ==
    LET RECURSIVE Sum(_)
        Sum(i) == IF i = 0 THEN 0
                  ELSE RawNodeCount(RawKids(r)[i]) + Sum(i - 1)
    IN  1 + Sum(Len(RawKids(r)))

\* C1: pruning is idempotent: pruning the read-back of a pruned tree gives
\* that same tree (order, attributes, truncated text), and the read-back of
\* the absent result prunes to the absent result.
C1_PruneIdempotent ==
    stage = "repruned" => rehierarchy = hierarchy

\* C1 case: a tree that was flattened, still has children and carries an
\* already-truncated text went through the second pruning.
C1_Witness ==
    /\ stage = "repruned"
    /\ hierarchy # Null
    /\ Len(hierarchy.children) > 0
    /\ NodeCount(hierarchy) < RawNodeCount(RawRoot)
    /\ \E n \in NodesOf(hierarchy) : Len(n.text) > MaxTextLen

\* C2 (as stated): every node with children has at least 2 children or has
\* a resourceId, text or contentDesc of its own.
C2_NoSingleChildGeneric ==
    Pruned => \A n \in NodesOf(hierarchy) :
                  Len(n.children) > 0 =>
                      Len(n.children) >= 2 \/ HasIdentityOrContent(n)

\* C2 (amended): a node with exactly one child has a resourceId, text or
\* contentDesc of its own, or is clickable with a child that is neither
\* clickable nor of a Button/Text type.
C2_SingleChildOnlyForTapTarget ==
    Pruned => \A n \in NodesOf(hierarchy) :
                  Len(n.children) = 1 =>
                      \/ HasIdentityOrContent(n)
                      \/ /\ n.clickable
                         /\ ~n.children[1].clickable
                         /\ ~includes(n.children[1].type, "Button")
                         /\ ~includes(n.children[1].type, "Text")

\* C2 case: the output holds a clickable container without identity that
\* kept its single child, and single-child wrappers were collapsed elsewhere.
C2_Witness ==
    /\ Pruned
    /\ \E n \in NodesOf(hierarchy) :
           Len(n.children) = 1 /\ ~HasIdentityOrContent(n) /\ n.clickable
    /\ NodeCount(hierarchy) < RawNodeCount(RawRoot)

\* C3: every childless node of the output has non-empty text or contentDesc,
\* a resourceId, or is clickable; and the result is absent exactly when the
\* raw tree holds no node with any of these (the root was reduced to an
\* uninformative leaf).
C3_LeavesCarryInformation ==
    Pruned =>
      /\ \A n \in NodesOf(hierarchy) :
             Len(n.children) = 0 => HasIdentityOrContent(n) \/ n.clickable
      /\ (hierarchy = Null) <=> (\A r \in RawNodesOf(RawRoot) : ~RawInteresting(r))

\* C3 case: a raw tree with an uninformative leaf next to an informative one
\* was pruned, the uninformative leaf is gone.
C3_Witness ==
    /\ Pruned
    /\ hierarchy # Null
    /\ \E r \in RawNodesOf(RawRoot) : RawKids(r) = <<>> /\ ~RawInteresting(r)
    /\ \E n \in NodesOf(hierarchy) : Len(n.children) = 0

\* a chain of non-clickable nodes without identity or content, one child
\* each, ending in a childless node with text
RECURSIVE IsTextChain(_)
IsTextChain(r) ==
    IF RawKids(r) = <<>> THEN RawText(r) # ""
    ELSE /\ Len(RawKids(r)) = 1
         /\ ~RawInteresting(r)
         /\ IsTextChain(RawKids(r)[1])
RECURSIVE ChainLeaf(_)
ChainLeaf(r) == IF RawKids(r) = <<>> THEN r ELSE ChainLeaf(RawKids(r)[1])
RECURSIVE ChainLength(_)
ChainLength(r) == IF RawKids(r) = <<>> THEN 0 ELSE 1 + ChainLength(RawKids(r)[1])

\* C4: a chain of any length of non-clickable nodes without resourceId, text
\* or contentDesc, one child each, ending in a leaf with text, prunes to one
\* childless node with the leaf's type and (normalised) text.
C4_ChainCollapsesToLeaf ==
    (Pruned /\ IsTextChain(RawRoot)) =>
        /\ hierarchy # Null
        /\ hierarchy.children = <<>>
        /\ hierarchy.type = RawType(ChainLeaf(RawRoot))
        /\ hierarchy.text = truncateText(RawText(ChainLeaf(RawRoot)))

\* C4 case: the 3-level tree root -> mid -> leaf(text = "OK") was pruned.
C4_Witness ==
    /\ Pruned
    /\ IsTextChain(RawRoot)
    /\ ChainLength(RawRoot) = 2
    /\ RawText(ChainLeaf(RawRoot)) = "OK"
    /\ hierarchy.text = "OK"

(***************************************************************************)
(* The device as the controllers see it: every hierarchy fetch either      *)
(* fails (the dump command failed) or returns the document of the screen   *)
(* that is up at that moment.                                              *)
(***************************************************************************)
A(cls, text, id, desc, bounds, click) ==
    [EmptyAndroidAttr EXCEPT !.class = cls, !.text = text, !.resource_id = id,
                             !.content_desc = desc, !.bounds = bounds,
                             !.clickable = click]

AndroidScreens ==
    { [node |-> <<>>],
      [node |-> << AndroidNode(A("android.widget.FrameLayout", "", "", "",
                                 "[0,0][1080,1920]", ""),
          << AndroidNode(A("android.widget.ImageView", "", "", "Back icon",
                           "[0,60][120,180]", "true"), <<>>),
             AndroidNode(A("android.widget.TextView", "Loading", "", "",
                           "[0,200][1080,300]", ""), <<>>) >>) >>],
      [node |-> << AndroidNode(A("android.widget.FrameLayout", "", "", "",
                                 "[0,0][1080,1920]", ""),
          << AndroidNode(A("android.view.View", "", "com.app:id/list", "",
                           "[0,200][1080,1800]", ""),
               << AndroidNode(A("android.widget.TextView", "Settings", "",
                                "", "[0,200][1080,300]", ""), <<>>) >>),
             AndroidNode(A("android.widget.Button", "OK",
                           "com.app:id/okButton", "", "[10,20][110,120]",
                           "true"), <<>>) >>) >>],
      [node |-> << AndroidNode(A("android.widget.FrameLayout", "", "", "",
                                 "[0,0][1080,1920]", ""),
          << AndroidNode(A("android.widget.TextView", "Look here", "", "",
                           "", ""), <<>>),
             AndroidNode(A("android.widget.Button", "OK",
                           "com.app:id/okButton", "", "[10,20][110,120]",
                           "true"), <<>>) >>) >>] }

M(text, label, id, bounds, click) ==
    MaestroNode([EmptyMaestroAttr EXCEPT !.text = text,
                     !.accessibilityText = label, !.resource_id = id,
                     !.bounds = bounds], click, TRUE, FALSE, FALSE)

MaestroScreens ==
    { MaestroTreeNode(M("", "", "", "", FALSE), <<>>),
      MaestroTreeNode(M("", "", "", "[0,0][390,844]", FALSE),
          << MaestroTreeNode(M("Loading", "", "", "[0,100][390,140]", FALSE),
                             <<>>) >>),
      MaestroTreeNode(M("", "", "", "[0,0][390,844]", FALSE),
          << MaestroTreeNode(M("Settings", "", "list", "[0,100][390,800]",
                               FALSE), <<>>),
             MaestroTreeNode(M("", "OK", "okButton", "[10,20][110,120]",
                               TRUE), <<>>) >>),
      MaestroTreeNode(M("", "", "", "[0,0][390,844]", FALSE),
          << MaestroTreeNode(M("Look here", "", "", "", FALSE), <<>>),
             MaestroTreeNode(M("", "OK", "okButton", "[10,20][110,120]",
                               TRUE), <<>>) >>) }

Screens(plat) == IF plat = "android" THEN AndroidScreens ELSE MaestroScreens

\* the selector / strategy pairs the calls are made with
Queries ==
    { [selector |-> "ok", strategy |-> "text"],
      [selector |-> "okButton", strategy |-> "testId"] }

\* outcome of one `await findElement(...)`: the dump failed, or the matches
FetchOutcomesFor(plat, q) ==
    { [ok |-> FALSE, elements |-> <<>>] }
      \cup { [ok |-> TRUE,
              elements |-> findElement(plat, doc, q.selector, q.strategy)] :
             doc \in Screens(plat) }

\* the outcomes for every platform and query, worked out once
FetchTable ==
    [plat \in {"android", "ios"}, q \in Queries |-> FetchOutcomesFor(plat, q)]

FetchOutcomes == FetchTable[platform, query]

\* Variant: a failed dump is taken for an empty screen.
FetchNeverThrows(out) == FALSE

\* `await findElement(...)` throws what getAndroidHierarchy / getIosHierarchy
\* threw
FetchThrew(out) == ~out.ok

FetchMs == {40, 600}       \* time one hierarchy fetch + find may take
\* Variant: the timer never fires.
TimerNeverFires == {}

TimerLateMs == {0, 15}     \* how late a timer may fire

(***************************************************************************)
(* waitForElement                                                          *)
(***************************************************************************)
ClockStarts == {0, 4000}
Timeouts ==
    {-1000, 0, 500, 2500, DefaultTimeoutMs}
      \cup { 1000 * k : k \in 1..MaxTimeoutSec }

InitWait ==
    /\ LogsIdle
    /\ platform \in {"android", "ios"}
    /\ rawDoc = NoCall /\ hierarchy = NotStarted /\ rehierarchy = NotStarted
    /\ stage = "idle"
    /\ query \in Queries
    /\ now \in ClockStarts
    /\ timeoutMs \in Timeouts
    /\ startTime = 0
    /\ wPc = "start"
    /\ polls = <<>>
    /\ sleeps = 0
    /\ sleptMs = 0
    /\ wResult = NoCall
    /\ ScrollIdle /\ XIdle

\* const startTime = Date.now();
WaitStart ==
    /\ wPc = "start"
    /\ startTime' = now
    /\ wPc' = "check"
    /\ UNCHANGED <<xvars, lvars, platform, pvars, query, now, timeoutMs, polls, sleeps,
                   sleptMs, wResult, svars>>

\* while (Date.now() - startTime < timeoutMs)
LoopContinues == now - startTime < timeoutMs

\* the loop test; when it fails the timeout error is thrown
WaitCheck ==
    /\ wPc = "check"
    /\ IF LoopContinues
       THEN wPc' = "find" /\ UNCHANGED wResult
       ELSE /\ wPc' = "done"
            /\ wResult' = [status |-> "timeout", selector |-> query.selector,
                           timeoutMs |-> timeoutMs]
    /\ UNCHANGED <<xvars, lvars, platform, pvars, query, now, timeoutMs, startTime, polls,
                   sleeps, sleptMs, svars>>

\* Variant: one match is not enough.
HasSeveralMatches(elements) == Len(elements) > 1

\* if (elements.length > 0)
HasMatch(elements) == Len(elements) > 0

\* const elements = await findElement(...); return on a match
WaitFind ==
    /\ wPc = "find"
    /\ \E out \in FetchOutcomes, d \in FetchMs :
         /\ now' = now + d
         /\ polls' = Append(polls, [ok |-> out.ok, found |-> Len(out.elements)])
         /\ IF FetchThrew(out)
            THEN wPc' = "done" /\ wResult' = [status |-> "failed"]
            ELSE IF HasMatch(out.elements)
            THEN /\ wPc' = "done"
                 /\ wResult' = [status |-> "found",
                                count |-> Len(out.elements),
                                selector |-> query.selector]
            ELSE wPc' = "sleep" /\ UNCHANGED wResult
    /\ UNCHANGED <<xvars, lvars, platform, pvars, query, timeoutMs, startTime, sleeps,
                   sleptMs, svars>>

\* await new Promise((resolve) => setTimeout(resolve, 1000));
WaitSleep ==
    /\ wPc = "sleep"
    /\ \E late \in TimerLateMs : now' = now + PollIntervalMs + late
    /\ sleeps' = sleeps + 1
    /\ sleptMs' = sleptMs + PollIntervalMs
    /\ wPc' = "check"
    /\ UNCHANGED <<xvars, lvars, platform, pvars, query, timeoutMs, startTime, polls,
                   wResult, svars>>

NextWait == WaitStart \/ WaitCheck \/ WaitFind \/ WaitSleep

SpecWait == InitWait /\ [][NextWait]_vars

(***************************************************************************)
(* Claims about waitForElement.                                            *)
(***************************************************************************)
PollAbsent(j) == polls[j].ok /\ polls[j].found = 0
PollPresent(j) == polls[j].ok /\ polls[j].found > 0

\* C5: when the target is absent at polls 1..k-1 and present at poll k, the
\* call returns the success message right after poll k: poll k is the last
\* fetch, exactly k-1 one-second sleeps were taken, none follows.
C5_FoundReturnsAtOnce ==
    \A k \in 1..Len(polls) :
        PollPresent(k) =>
            /\ k = Len(polls)
            /\ \A j \in 1..(k - 1) : PollAbsent(j)
            /\ wPc = "done"
            /\ wResult = [status |-> "found", count |-> polls[k].found,
                          selector |-> query.selector]
            /\ sleeps = k - 1
            /\ sleptMs = (k - 1) * 1000

\* C5 case: the target showed up at the third poll.
C5_Witness ==
    /\ Len(polls) = 3
    /\ PollAbsent(1) /\ PollAbsent(2) /\ PollPresent(3)
    /\ wResult.status = "found"

NeverAppeared == \A j \in 1..Len(polls) : PollAbsent(j)

\* C6: when the target never appears the call ends with the timeout
\* failure, thrown only at a loop check where at least timeoutMs have
\* elapsed; with timeoutMs = 500 that is after exactly one poll and one
\* sleep.
C6_TimeoutOnlyWhenElapsed ==
    /\ (wPc = "done" /\ NeverAppeared) =>
           wResult = [status |-> "timeout", selector |-> query.selector,
                      timeoutMs |-> timeoutMs]
    /\ (wPc = "done" /\ wResult.status = "timeout") =>
           NeverAppeared /\ now - startTime >= timeoutMs
    /\ timeoutMs = 500 =>
           /\ Len(polls) <= 1 /\ sleeps <= 1
           /\ (wPc = "done" /\ NeverAppeared) =>
                  Len(polls) = 1 /\ sleeps = 1 /\ sleptMs = 1000

\* C6 case: timeoutMs = 500, one poll without a match, one sleep, timeout.
C6_Witness ==
    /\ timeoutMs = 500
    /\ wPc = "done"
    /\ wResult.status = "timeout"
    /\ Len(polls) = 1 /\ PollAbsent(1)
    /\ sleeps = 1

(***************************************************************************)
(* scrollToElement                                                         *)
(***************************************************************************)
Directions == {"up", "down", "left", "right"}
MaxScrollsArgs == ((-1)..MaxScrollsArg) \cup {DefaultMaxScrolls}
ScrollDurations == {DefaultScrollDurationMs, 1000}

\* what the screenshot collaborator may report as the viewport
Viewports ==
    { [originalWidth |-> 600, originalHeight |-> 1000],
      [originalWidth |-> 1080, originalHeight |-> 1920],
      [originalWidth |-> 1170, originalHeight |-> 2532] }

\* how one deviceSwipe may end: the command ran, it threw, or (iOS only,
\* runMaestroFlow) it failed but printed output, which is returned as a
\* normal result
SwipeOutcomes(plat) ==
    IF plat = "android" THEN {"done", "threw"}
    ELSE {"done", "failedWithOutput", "threw"}

InitScroll ==
    /\ LogsIdle
    /\ platform \in {"android", "ios"}
    /\ rawDoc = NoCall /\ hierarchy = NotStarted /\ rehierarchy = NotStarted
    /\ stage = "idle"
    /\ query \in Queries
    /\ now = 0
    /\ WaitIdle /\ XIdle
    /\ direction \in Directions
    /\ maxScrolls \in MaxScrollsArgs
    /\ scrollDurationMs \in ScrollDurations
    /\ viewport = NoCall
    /\ swipeCoords = NoCall
    /\ loopI = 0
    /\ sPc = "initial"
    /\ log = <<>>
    /\ sResult = NoCall

FindEvent(out) == [op |-> "find", ok |-> out.ok, elements |-> out.elements]

\* Variant: the last match is reported.
LastMatch(elements) == elements[Len(elements)]

\* elements[0]
FirstMatch(elements) == elements[1]

\* let elements = await findElement(...); if (elements.length > 0) return
ScrollInitialCheck ==
    /\ sPc = "initial"
    /\ \E out \in FetchOutcomes :
         /\ log' = Append(log, FindEvent(out))
         /\ IF FetchThrew(out)
            THEN sPc' = "done" /\ sResult' = [status |-> "failed"]
            ELSE IF HasMatch(out.elements)
            THEN /\ sPc' = "done"
                 /\ sResult' = [status |-> "success",
                                element |-> FirstMatch(out.elements),
                                scrollCount |-> 0]
            ELSE sPc' = "viewport" /\ UNCHANGED sResult
    /\ UNCHANGED <<xvars, lvars, platform, pvars, query, now, wvars, direction, maxScrolls,
                   scrollDurationMs, viewport, swipeCoords, loopI>>

\* Variant: pixels are taken for points on every platform.
scaleFactorOne(plat) == 1

\* const scaleFactor = platform === "ios" ? 3 : 1;
scaleFactor(plat) == IF plat = "ios" THEN IosScaleFactor ELSE 1

\* Variant: the gesture follows the requested direction instead of opposing
\* it (the bodies of "down" and "up", and of "right" and "left", change places).
ComputeSwipeCoordsNotInverted(plat, vp, dir) ==
    LET screenWidth == RoundDiv(vp.originalWidth, scaleFactor(plat))
        screenHeight == RoundDiv(vp.originalHeight, scaleFactor(plat))
        centerX == RoundDiv(screenWidth, 2)
        centerY == RoundDiv(screenHeight, 2)
        scrollDistance == RoundDiv(screenHeight, 3)
    IN  CASE dir = "up" ->
               [x1 |-> 2 * centerX, y1 |-> 2 * centerY + scrollDistance,
                x2 |-> 2 * centerX, y2 |-> 2 * centerY - scrollDistance]
          [] dir = "down" ->
               [x1 |-> 2 * centerX, y1 |-> 2 * centerY - scrollDistance,
                x2 |-> 2 * centerX, y2 |-> 2 * centerY + scrollDistance]
          [] dir = "left" ->
               [x1 |-> 2 * centerX + scrollDistance, y1 |-> 2 * centerY,
                x2 |-> 2 * centerX - scrollDistance, y2 |-> 2 * centerY]
          [] dir = "right" ->
               [x1 |-> 2 * centerX - scrollDistance, y1 |-> 2 * centerY,
                x2 |-> 2 * centerX + scrollDistance, y2 |-> 2 * centerY]

\* lines 274-317: the swipe vector.  Every coordinate is twice the value the
\* code computes, so that `scrollDistance / 2` stays exact.
ComputeSwipeCoords(plat, vp, dir) ==
    LET screenWidth == RoundDiv(vp.originalWidth, scaleFactor(plat))
        screenHeight == RoundDiv(vp.originalHeight, scaleFactor(plat))
        centerX == RoundDiv(screenWidth, 2)
        centerY == RoundDiv(screenHeight, 2)
        scrollDistance == RoundDiv(screenHeight, 3)
    IN  CASE dir = "down" ->
               [x1 |-> 2 * centerX, y1 |-> 2 * centerY + scrollDistance,
                x2 |-> 2 * centerX, y2 |-> 2 * centerY - scrollDistance]
          [] dir = "up" ->
               [x1 |-> 2 * centerX, y1 |-> 2 * centerY - scrollDistance,
                x2 |-> 2 * centerX, y2 |-> 2 * centerY + scrollDistance]
          [] dir = "right" ->
               [x1 |-> 2 * centerX + scrollDistance, y1 |-> 2 * centerY,
                x2 |-> 2 * centerX - scrollDistance, y2 |-> 2 * centerY]
          [] dir = "left" ->
               [x1 |-> 2 * centerX - scrollDistance, y1 |-> 2 * centerY,
                x2 |-> 2 * centerX + scrollDistance, y2 |-> 2 * centerY]

\* const viewport = await getViewport(...); then the swipe vector
ScrollGetViewport ==
    /\ sPc = "viewport"
    /\ \/ /\ log' = Append(log, [op |-> "getViewport", ok |-> FALSE])
          /\ sPc' = "done"
          /\ sResult' = [status |-> "failed"]
          /\ UNCHANGED <<viewport, swipeCoords, loopI>>
       \/ \E vp \in Viewports :
            /\ log' = Append(log, [op |-> "getViewport", ok |-> TRUE])
            /\ viewport' = vp
            /\ swipeCoords' = ComputeSwipeCoords(platform, vp, direction)
            /\ loopI' = 0
            /\ sPc' = "loop"
            /\ UNCHANGED sResult
    /\ UNCHANGED <<xvars, lvars, platform, pvars, query, now, wvars, direction, maxScrolls,
                   scrollDurationMs>>

\* Variant: one iteration too many.
LoopGoesOnInclusive(k, max) == k <= max

\* i < maxScrolls
LoopGoesOn(k, max) == k < max

\* the for test; when it fails the not-found error is thrown
ScrollLoopCheck ==
    /\ sPc = "loop"
    /\ IF LoopGoesOn(loopI, maxScrolls)
       THEN sPc' = "swipe" /\ UNCHANGED sResult
       ELSE /\ sPc' = "done"
            /\ sResult' = [status |-> "notfound", selector |-> query.selector,
                           scrolls |-> maxScrolls, direction |-> direction]
    /\ UNCHANGED <<xvars, lvars, platform, pvars, query, now, wvars, direction, maxScrolls,
                   scrollDurationMs, viewport, swipeCoords, loopI, log>>

\* await deviceSwipe(deviceId, platform, x1, y1, x2, y2)
ScrollSwipe ==
    /\ sPc = "swipe"
    /\ \E outcome \in SwipeOutcomes(platform) :
         /\ log' = Append(log, [op |-> "swipe", outcome |-> outcome,
                                coords |-> swipeCoords])
         /\ IF outcome = "threw"
            THEN sPc' = "done" /\ sResult' = [status |-> "failed"]
            ELSE sPc' = "delay" /\ UNCHANGED sResult
    /\ UNCHANGED <<xvars, lvars, platform, pvars, query, now, wvars, direction, maxScrolls,
                   scrollDurationMs, viewport, swipeCoords, loopI>>

\* const delayMs = platform === "ios" ? 1500 : scrollDurationMs + 200;
delayMs(plat, duration) ==
    IF plat = "ios" THEN IosSettleMs ELSE duration + AndroidSettleExtraMs

\* await new Promise((resolve) => setTimeout(resolve, delayMs));
ScrollSettle ==
    /\ sPc = "delay"
    /\ log' = Append(log, [op |-> "delay",
                           ms |-> delayMs(platform, scrollDurationMs)])
    /\ sPc' = "requery"
    /\ UNCHANGED <<xvars, lvars, platform, pvars, query, now, wvars, direction, maxScrolls,
                   scrollDurationMs, viewport, swipeCoords, loopI, sResult>>

\* Variant: the 0-based loop counter is reported.
ScrollCountZeroBased(k) == k

\* scrollCount: i + 1
ScrollCount(k) == k + 1

\* elements = await findElement(...); return on a match, else i++
ScrollRequery ==
    /\ sPc = "requery"
    /\ \E out \in FetchOutcomes :
         /\ log' = Append(log, FindEvent(out))
         /\ IF FetchThrew(out)
            THEN /\ sPc' = "done" /\ sResult' = [status |-> "failed"]
                 /\ UNCHANGED loopI
            ELSE IF HasMatch(out.elements)
            THEN /\ sPc' = "done"
                 /\ sResult' = [status |-> "success",
                                element |-> FirstMatch(out.elements),
                                scrollCount |-> ScrollCount(loopI)]
                 /\ UNCHANGED loopI
            ELSE /\ sPc' = "loop"
                 /\ loopI' = loopI + 1
                 /\ UNCHANGED sResult
    /\ UNCHANGED <<xvars, lvars, platform, pvars, query, now, wvars, direction, maxScrolls,
                   scrollDurationMs, viewport, swipeCoords>>

NextScroll ==
    \/ ScrollInitialCheck
    \/ ScrollGetViewport
    \/ ScrollLoopCheck
    \/ ScrollSwipe
    \/ ScrollSettle
    \/ ScrollRequery

SpecScroll == InitScroll /\ [][NextScroll]_vars

(***************************************************************************)
(* Claims about scrollToElement.                                           *)
(***************************************************************************)
IsFind(e) == e.op = "find"
FindAbsent(e) == e.op = "find" /\ e.ok /\ Len(e.elements) = 0
FindPresent(e) == e.op = "find" /\ e.ok /\ Len(e.elements) > 0
SwipeEvents == {j \in 1..Len(log) : log[j].op = "swipe"}
Max(a, b) == IF a >= b THEN a ELSE b

\* C7: when the target already matches at the initial check the call
\* returns {success, first match, scrollCount 0} at once: the check is the
\* only collaborator call, so no swipe, no settle delay, no viewport query.
C7_VisibleAtStartNoScroll ==
    (Len(log) >= 1 /\ FindPresent(log[1])) =>
        /\ Len(log) = 1
        /\ sPc = "done"
        /\ sResult = [status |-> "success", element |-> log[1].elements[1],
                      scrollCount |-> 0]
        /\ viewport = NoCall

\* C7 case: the initial check found two matches and the call is over.
C7_Witness ==
    /\ sPc = "done"
    /\ Len(log) = 1 /\ FindPresent(log[1]) /\ Len(log[1].elements) = 2
    /\ sResult.status = "success"

\* C8: a success with scrollCount = n > 0 comes after exactly n swipes,
\* n <= maxScrolls; the calls were: initial check (absent), viewport, then n
\* times swipe, settle delay, re-query, absent after the first n-1 swipes
\* and present after the n-th, whose first match is returned.
C8_ScrollCountIsSwipeCount ==
    (sPc = "done" /\ sResult.status = "success" /\ sResult.scrollCount > 0) =>
        LET n == sResult.scrollCount
        IN  /\ n <= maxScrolls
            /\ Cardinality(SwipeEvents) = n
            /\ Len(log) = 2 + 3 * n
            /\ FindAbsent(log[1])
            /\ log[2].op = "getViewport"
            /\ \A j \in 1..n :
                 /\ log[3 * j].op = "swipe"
                 /\ log[3 * j + 1].op = "delay"
                 /\ log[3 * j + 1].ms = (IF platform = "ios" THEN 1500
                                         ELSE scrollDurationMs + 200)
                 /\ IF j < n THEN FindAbsent(log[3 * j + 2])
                    ELSE FindPresent(log[3 * j + 2])
            /\ sResult.element = log[Len(log)].elements[1]

\* C8 case: the element appeared only after the second swipe.
C8_Witness ==
    /\ sPc = "done"
    /\ sResult.status = "success"
    /\ sResult.scrollCount = 2
    /\ Cardinality(SwipeEvents) = 2
    /\ FindAbsent(log[5])

AllFindsAbsent == \A j \in 1..Len(log) : IsFind(log[j]) => FindAbsent(log[j])
NoCollaboratorFailed ==
    \A j \in 1..Len(log) :
        /\ log[j].op = "find" => log[j].ok
        /\ log[j].op = "getViewport" => log[j].ok
        /\ log[j].op = "swipe" => log[j].outcome # "threw"

\* C9: when the target is absent at the initial check and after every
\* swipe (and no collaborator call fails) the call issues exactly maxScrolls
\* swipes (none when maxScrolls <= 0) and then throws the not-found error;
\* it never issues more than maxScrolls swipes.
C9_ExhaustedAfterMaxScrolls ==
    /\ Cardinality(SwipeEvents) <= Max(maxScrolls, 0)
    /\ (sPc = "done" /\ AllFindsAbsent /\ NoCollaboratorFailed) =>
           /\ sResult = [status |-> "notfound", selector |-> query.selector,
                         scrolls |-> maxScrolls, direction |-> direction]
           /\ Cardinality(SwipeEvents) = Max(maxScrolls, 0)
    /\ (sPc = "done" /\ sResult.status = "notfound") =>
           AllFindsAbsent /\ Cardinality(SwipeEvents) = Max(maxScrolls, 0)

\* C9 case: three swipes, never a match, the not-found error.
C9_Witness ==
    /\ sPc = "done"
    /\ sResult.status = "notfound"
    /\ maxScrolls = 3
    /\ Cardinality(SwipeEvents) = 3

IsEven(n) == n % 2 = 0

\* C10: direction "down" on a 1000-pixel-tall Android viewport: every swipe
\* goes from y = 500 + 166 to y = 500 - 166 at x = horizontal centre, and
\* the coordinates are integers (log coordinates are twice the JS values).
C10_DownSwipeIntegerCoords ==
    (platform = "android" /\ direction = "down" /\ viewport # NoCall
       /\ viewport.originalHeight = 1000) =>
        \A j \in SwipeEvents :
            LET c == log[j].coords
            IN  /\ c.y1 = 2 * (500 + 166)
                /\ c.y2 = 2 * (500 - 166)
                /\ c.x1 = 2 * RoundDiv(viewport.originalWidth, 2)
                /\ c.x2 = c.x1
                /\ IsEven(c.x1) /\ IsEven(c.y1) /\ IsEven(c.x2) /\ IsEven(c.y2)

(***************************************************************************)
(* parseBounds specification: one bounds string, written from four numbers *)
(* and possibly damaged in one place, handed to parseBounds.               *)
(***************************************************************************)
\* decimal notation of a natural number
RECURSIVE Decimal(_)
Decimal(n) ==
    IF n < 10 THEN Digits[n + 1] ELSE Decimal(n \div 10) \o Digits[(n % 10) + 1]

CoordValues == (0..MaxCoord) \cup {15, 110}

Defects ==
    {[kind |-> "none"]}
      \cup { [kind |-> "bracket", at |-> k] : k \in 1..4 }
      \cup { [kind |-> "component", at |-> k, form |-> f] : k \in 1..4, f \in 1..4 }

\* what stands in place of component n of a damaged string
BadComponent(n, f) ==
    CASE f = 1 -> ""
      [] f = 2 -> "x"
      [] f = 3 -> "-" \o Decimal(n)
      [] OTHER -> Decimal(n) \o ".5"

\* "[a,b][c,d]", with bracket number `at` left out or component number `at`
\* replaced, as the defect says
BoundsString(a, b, c, d, defect) ==
    LET Br(k, ch) == IF defect.kind = "bracket" /\ defect.at = k THEN "" ELSE ch
        Co(k, n) == IF defect.kind = "component" /\ defect.at = k
                    THEN BadComponent(n, defect.form) ELSE Decimal(n)
    IN  Br(1, "[") \o Co(1, a) \o "," \o Co(2, b) \o Br(2, "]")
          \o Br(3, "[") \o Co(3, c) \o "," \o Co(4, d) \o Br(4, "]")

InitBounds ==
    /\ LogsIdle
    /\ query = NoCall /\ now = 0 /\ WaitIdle /\ ScrollIdle /\ TapIdle /\ IosIdle
    /\ OthersIdle
    /\ platform = "android" /\ rawDoc = NoCall /\ hierarchy = NotStarted
    /\ rehierarchy = NotStarted /\ stage = "idle"
    /\ matches = NoCall /\ boundsOut = NoCall /\ fPc = "start"
    /\ \/ boundsCase = [kind |-> "empty"] /\ boundsArg = ""
       \/ \E a \in CoordValues, b \in CoordValues, c \in CoordValues,
             d \in CoordValues, defect \in Defects :
            /\ boundsCase = [kind |-> defect.kind, a |-> a, b |-> b,
                             c |-> c, d |-> d]
            /\ boundsArg = BoundsString(a, b, c, d, defect)

ParseBounds ==
    /\ fPc = "start"
    /\ boundsOut' = parseBounds(boundsArg)
    /\ fPc' = "done"
    /\ UNCHANGED <<lvars, platform, pvars, query, now, wvars, svars, boundsArg,
                   boundsCase, matches, tvars, ivars, kvars, ovars>>

NextBounds == ParseBounds

SpecBounds == InitBounds /\ [][NextBounds]_vars

CoordinateFields ==
    {"left", "top", "right", "bottom", "centerX", "centerY", "width", "height"}

\* C11: parseBounds returns, for "[a,b][c,d]" with naturals a, b, c, d, the
\* record left = a, top = b, right = c, bottom = d, width = c - a,
\* height = d - b, centerX = (a + c) / 2 and centerY = (b + d) / 2 with a half
\* rounded up, every field an integer; for the empty string and for a string
\* with a bracket missing or with a component that is empty, not a number,
\* negative or fractional it returns null.  It returns in every case.
C11_ParseBoundsReference ==
    fPc = "done" =>
        IF boundsCase.kind = "none"
        THEN /\ boundsOut = [left |-> boundsCase.a, top |-> boundsCase.b,
                             right |-> boundsCase.c, bottom |-> boundsCase.d,
                             width |-> boundsCase.c - boundsCase.a,
                             height |-> boundsCase.d - boundsCase.b,
                             centerX |-> (boundsCase.a + boundsCase.c + 1) \div 2,
                             centerY |-> (boundsCase.b + boundsCase.d + 1) \div 2]
             /\ \A f \in CoordinateFields : boundsOut[f] \in Int
        ELSE boundsOut = Null

\* a well-formed string whose horizontal centre falls on a half has been parsed
C11_Witness ==
    /\ fPc = "done"
    /\ boundsCase.kind = "none"
    /\ (boundsCase.a + boundsCase.c) % 2 = 1
    /\ boundsOut # Null
    /\ boundsOut.centerX * 2 = boundsCase.a + boundsCase.c + 1

\* a string with a missing bracket has been refused
C11_WitnessMalformed ==
    fPc = "done" /\ boundsCase.kind = "bracket" /\ boundsOut = Null

(***************************************************************************)
(* findElement specification: one raw document, one selector and strategy, *)
(* one call of findElement.                                                *)
(***************************************************************************)
\* bounds attributes of the raw nodes, with the box each one denotes
\* (<<>>: the attribute is there but is not a bounds string)
BoundsTable ==
    { [s |-> BoundsString(10, 20, 110, 120, [kind |-> "none"]),
       box |-> <<10, 20, 110, 120>>],
      [s |-> BoundsString(0, 0, 1080, 1920, [kind |-> "none"]),
       box |-> <<0, 0, 1080, 1920>>],
      [s |-> BoundsString(0, 0, 7, 9, [kind |-> "none"]),
       box |-> <<0, 0, 7, 9>>],
      [s |-> BoundsString(0, 0, 5, 6, [kind |-> "bracket", at |-> 4]),
       box |-> <<>>] }

BoundsOf(box) == (CHOOSE e \in BoundsTable : e.box = box).s

FindAndroidAttrs ==
    { [EmptyAndroidAttr EXCEPT !.class = "android.widget.Button",
                               !.text = "Submit", !.clickable = "true",
                               !.bounds = BoundsOf(<<10, 20, 110, 120>>)],
      [EmptyAndroidAttr EXCEPT !.class = "android.widget.TextView",
                               !.text = "Search results",
                               !.resource_id = "com.app:id/loginButton",
                               !.bounds = BoundsOf(<<>>)],
      [EmptyAndroidAttr EXCEPT !.class = "android.widget.ImageView",
                               !.text = "Submit icon",
                               !.content_desc = "Search"],
      [EmptyAndroidAttr EXCEPT !.class = "android.widget.FrameLayout",
                               !.bounds = BoundsOf(<<0, 0, 1080, 1920>>)],
      [EmptyAndroidAttr EXCEPT !.class = "android.view.ViewGroup",
                               !.text = "submit form",
                               !.resource_id = "com.app:id/LOGINBUTTON",
                               !.content_desc = "Submit",
                               !.bounds = BoundsOf(<<0, 0, 7, 9>>)] }

FindMaestroAttrs ==
    { MaestroNode([EmptyMaestroAttr EXCEPT !.text = "Submit",
                       !.bounds = BoundsOf(<<10, 20, 110, 120>>)],
                  TRUE, TRUE, FALSE, FALSE),
      MaestroNode([EmptyMaestroAttr EXCEPT !.accessibilityText = "Search",
                       !.resource_id = "loginButton"],
                  FALSE, TRUE, FALSE, FALSE),
      MaestroNode([EmptyMaestroAttr EXCEPT !.bounds = BoundsOf(<<>>),
                       !.hintText = "submit form"],
                  FALSE, FALSE, FALSE, FALSE) }

RECURSIVE FindAndroidTrees(_)
RECURSIVE FindAndroidForests(_)
FindAndroidForests(n) ==
    IF n = 0 THEN {<<>>}
    ELSE UNION { { <<t>> \o f : t \in FindAndroidTrees(i),
                                f \in FindAndroidForests(n - i) } : i \in 1..n }
FindAndroidTrees(n) ==
    { AndroidNode(a, kids) : a \in FindAndroidAttrs,
                             kids \in FindAndroidForests(n - 1) }

RECURSIVE FindMaestroTrees(_)
RECURSIVE FindMaestroForests(_)
FindMaestroForests(n) ==
    IF n = 0 THEN {<<>>}
    ELSE UNION { { <<t>> \o f : t \in FindMaestroTrees(i),
                                f \in FindMaestroForests(n - i) } : i \in 1..n }
FindMaestroTrees(n) ==
    { MaestroTreeNode(m, kids) : m \in FindMaestroAttrs,
                                 kids \in FindMaestroForests(n - 1) }

FindDocuments(plat, max) ==
    IF plat = "android"
    THEN {[node |-> <<>>]}
           \cup { [node |-> <<t>>] :
                    t \in UNION {FindAndroidTrees(n) : n \in 1..max} }
    ELSE {MaestroTreeNode(MaestroNode(EmptyMaestroAttr, FALSE, FALSE, FALSE,
                                      FALSE), <<>>)}
           \cup UNION { FindMaestroTrees(n) : n \in 1..max }

FindQueries ==
    { [selector |-> "Submit", strategy |-> "text"],
      [selector |-> "search", strategy |-> "text"],
      [selector |-> "search", strategy |-> "contentDescription"],
      [selector |-> "loginButton", strategy |-> "testId"],
      [selector |-> "login", strategy |-> "testId"],
      [selector |-> "submit", strategy |-> "contentDescription"] }

InitFind ==
    /\ LogsIdle
    /\ now = 0 /\ WaitIdle /\ ScrollIdle /\ TapIdle /\ IosIdle /\ OthersIdle
    /\ boundsArg = "" /\ boundsCase = NoCall /\ boundsOut = NoCall
    /\ platform \in {"android", "ios"}
    /\ rawDoc \in FindDocuments(platform, MaxNodes)
    /\ query \in FindQueries
    /\ hierarchy = NotStarted /\ rehierarchy = NotStarted /\ stage = "idle"
    /\ matches = NoCall /\ fPc = "start"

\* const root = await getSemanticHierarchy(...): the dump fails and the call
\* throws, or the tree is pruned and traversed
FindElement ==
    /\ fPc = "start"
    /\ \/ fPc' = "failed" /\ UNCHANGED <<hierarchy, matches>>
       \/ /\ hierarchy' = getSemanticHierarchy(platform, rawDoc)
          /\ matches' = findElement(platform, rawDoc, query.selector,
                                    query.strategy)
          /\ fPc' = "done"
    /\ UNCHANGED <<lvars, platform, rawDoc, rehierarchy, stage, query, now, wvars,
                   svars, boundsArg, boundsCase, boundsOut, tvars, ivars,
                   kvars, ovars>>

NextFind == FindElement

SpecFind == InitFind /\ [][NextFind]_vars

AttributeFields ==
    {"type", "text", "resourceId", "contentDesc", "bounds", "clickable",
     "enabled", "focused", "selected"}

\* the attributes of a node or of an element, children and coordinates aside
Attributes(n) == [f \in AttributeFields |-> n[f]]

\* the nodes of a tree in document order
RECURSIVE PreOrder(_)
PreOrder(n) ==
    LET RECURSIVE Kids(_)
        Kids(i) == IF i > Len(n.children) THEN <<>>
                   ELSE PreOrder(n.children[i]) \o Kids(i + 1)
    IN  <<n>> \o Kids(1)

\* the coordinate fields a box gives, by the reference of C11
BoxFields(box) ==
    [left |-> box[1], top |-> box[2], right |-> box[3], bottom |-> box[4],
     width |-> box[3] - box[1], height |-> box[4] - box[2],
     centerX |-> (box[1] + box[3] + 1) \div 2,
     centerY |-> (box[2] + box[4] + 1) \div 2]

Box(s) == (CHOOSE e \in BoundsTable : e.s = s).box

\* C12: every element findElement returns has the attributes of a node of
\* the pruned tree and no children; it has all eight coordinate fields, with
\* the values the bounds denote, exactly when the node has a bounds string
\* that parses, and none of them when the bounds are absent or malformed; an
\* element with text "Submit" and bounds "[10,20][110,120]" has centerX 60,
\* centerY 70, width 100 and height 100.
C12_ElementFields ==
    fPc = "done" =>
        \A i \in 1..Len(matches) :
            LET e == matches[i] IN
            /\ "children" \notin DOMAIN e
            /\ AttributeFields \subseteq DOMAIN e
            /\ \E n \in NodesOf(hierarchy) : Attributes(n) = Attributes(e)
            /\ IF e.bounds # "" /\ Box(e.bounds) # <<>>
               THEN /\ DOMAIN e = AttributeFields \cup CoordinateFields
                    /\ \A f \in CoordinateFields :
                          e[f] = BoxFields(Box(e.bounds))[f]
               ELSE DOMAIN e = AttributeFields
            /\ (e.text = "Submit" /\ e.bounds = "[10,20][110,120]") =>
                  /\ e.centerX = 60 /\ e.centerY = 70
                  /\ e.width = 100 /\ e.height = 100

\* one call returned the element of the example, with its coordinates, and
\* an element without bounds and without coordinates
C12_Witness ==
    /\ fPc = "done"
    /\ \E i \in 1..Len(matches) :
          /\ matches[i].text = "Submit" /\ matches[i].clickable
          /\ matches[i].bounds = "[10,20][110,120]"
          /\ "centerX" \in DOMAIN matches[i] /\ matches[i].centerX = 60
    /\ \E i \in 1..Len(matches) :
          /\ matches[i].bounds = ""
          /\ "centerX" \notin DOMAIN matches[i]

\* a call returned an element whose bounds are there but malformed
C12_WitnessMalformed ==
    /\ fPc = "done"
    /\ \E i \in 1..Len(matches) :
          /\ matches[i].bounds # "" /\ Box(matches[i].bounds) = <<>>
          /\ "centerX" \notin DOMAIN matches[i]

\* C13: findElement returns the matching nodes of the pruned tree in
\* document order, each once, a matching ancestor before its matching
\* descendants; it returns the empty list when nothing matches and when the
\* hierarchy is absent.
C13_PreOrderMatches ==
    fPc = "done" =>
        IF hierarchy = Null THEN matches = <<>>
        ELSE LET Test(n) == Matches(n, query.selector, query.strategy)
                 expected == SelectSeq(PreOrder(hierarchy), Test)
             IN  /\ Len(matches) = Len(expected)
                 /\ \A i \in 1..Len(matches) :
                       Attributes(matches[i]) = Attributes(expected[i])

\* a matching root with a matching child, both returned, the root first
C13_Witness ==
    /\ fPc = "done"
    /\ hierarchy # Null
    /\ Len(hierarchy.children) > 0
    /\ Matches(hierarchy, query.selector, query.strategy)
    /\ Matches(hierarchy.children[1], query.selector, query.strategy)
    /\ Attributes(hierarchy) # Attributes(hierarchy.children[1])
    /\ Len(matches) >= 2
    /\ Attributes(matches[1]) = Attributes(hierarchy)
    /\ Attributes(matches[2]) = Attributes(hierarchy.children[1])

\* the hierarchy is absent and the call returned the empty list
C13_WitnessAbsent == fPc = "done" /\ hierarchy = Null /\ matches = <<>>

\* the rule of section 4.4, on the attribute the strategy names
MatchRule(n, selector, strategy) ==
    LET value == CASE strategy = "testId" -> n.resourceId
                   [] strategy = "text" -> n.text
                   [] strategy = "contentDescription" -> n.contentDesc
    IN  /\ value # ""
        /\ IF strategy = "testId" THEN endsWith(value, selector)
           ELSE includes(toLowerCase(value), toLowerCase(selector))

\* C14: a node of the pruned tree is among the elements returned exactly
\* when the attribute its strategy names (resourceId for testId, text for
\* text, contentDesc for contentDescription) is there and ends with the
\* selector (testId, case-sensitive) or contains it after lower-casing both
\* (text, contentDescription).
C14_MatchRule ==
    (fPc = "done" /\ hierarchy # Null) =>
        \A n \in NodesOf(hierarchy) :
            (\E i \in 1..Len(matches) : Attributes(matches[i]) = Attributes(n))
              <=> MatchRule(n, query.selector, query.strategy)

\* under `text` a node matched in another letter case, and a node that has
\* the selector only in its contentDesc did not match
C14_Witness ==
    /\ fPc = "done" /\ hierarchy # Null
    /\ query.strategy = "text"
    /\ \E i \in 1..Len(matches) :
          /\ ~includes(matches[i].text, query.selector)
          /\ includes(toLowerCase(matches[i].text), toLowerCase(query.selector))
    /\ \E n \in NodesOf(hierarchy) :
          /\ includes(toLowerCase(n.contentDesc), toLowerCase(query.selector))
          /\ \A i \in 1..Len(matches) : Attributes(matches[i]) # Attributes(n)

\* under `testId` a suffix matched and the same suffix in capitals did not
C14_WitnessTestId ==
    /\ fPc = "done" /\ hierarchy # Null
    /\ query.strategy = "testId"
    /\ Len(matches) > 0
    /\ \E n \in NodesOf(hierarchy) :
          /\ endsWith(toLowerCase(n.resourceId), toLowerCase(query.selector))
          /\ \A i \in 1..Len(matches) : Attributes(matches[i]) # Attributes(n)

(***************************************************************************)
(* tapOnElement specification: findElement, the two checks, deviceTap.     *)
(***************************************************************************)
\* how `await deviceTap(...)` ends: adb / Maestro ran, or the call threw; on
\* iOS runMaestroFlow also returns the output of a flow that failed
TapOutcomes(plat) == SwipeOutcomes(plat)

\* Variant: the first element that has coordinates, if there is one.
TapTargetWithBounds(elements) ==
    LET withBounds == {i \in 1..Len(elements) : "centerX" \in DOMAIN elements[i]}
    IN  IF withBounds = {} THEN elements[1]
        ELSE elements[CHOOSE i \in withBounds : \A j \in withBounds : i <= j]

\* const element = elements[0]
TapTarget(elements) == elements[1]

\* the (selector, strategy) pairs a tap call is made with
TapQueries ==
    { [selector |-> "Submit", strategy |-> "text"],
      [selector |-> "search", strategy |-> "contentDescription"],
      [selector |-> "loginButton", strategy |-> "testId"] }

InitTap ==
    /\ LogsIdle
    /\ now = 0 /\ WaitIdle /\ ScrollIdle /\ FindIdle /\ IosIdle /\ OthersIdle
    /\ platform \in {"android", "ios"}
    /\ rawDoc \in FindDocuments(platform, MaxNodes)
    /\ query \in TapQueries
    /\ hierarchy = NotStarted /\ rehierarchy = NotStarted /\ stage = "idle"
    /\ tPc = "find" /\ tElement = NoCall /\ taps = <<>> /\ tResult = NoCall

\* const elements = await findElement(...), then the two checks
TapFind ==
    /\ tPc = "find"
    /\ \/ /\ tPc' = "done"
          /\ tResult' = [status |-> "failed"]
          /\ UNCHANGED tElement
       \/ LET elements == findElement(platform, rawDoc, query.selector,
                                      query.strategy)
          IN  IF Len(elements) = 0
              THEN /\ tPc' = "done"
                   /\ tResult' = [status |-> "notFound",
                                  strategy |-> query.strategy,
                                  selector |-> query.selector]
                   /\ UNCHANGED tElement
              ELSE LET element == TapTarget(elements)
                   IN  IF "centerX" \notin DOMAIN element
                          \/ "centerY" \notin DOMAIN element
                       THEN /\ tPc' = "done"
                            /\ tResult' = [status |-> "noBounds",
                                           selector |-> query.selector]
                            /\ UNCHANGED tElement
                       ELSE /\ tPc' = "tap"
                            /\ tElement' = element
                            /\ UNCHANGED tResult
    /\ UNCHANGED <<lvars, platform, pvars, query, now, wvars, svars, fvars, taps,
                   ivars, kvars, ovars>>

\* await deviceTap(deviceId, platform, element.centerX, element.centerY)
TapDevice ==
    /\ tPc = "tap"
    /\ \E outcome \in TapOutcomes(platform) :
         /\ taps' = Append(taps, [x |-> tElement.centerX, y |-> tElement.centerY,
                                  outcome |-> outcome])
         /\ tResult' = IF outcome = "threw" THEN [status |-> "tapFailed"]
                       ELSE [status |-> "success", element |-> tElement,
                             x |-> tElement.centerX, y |-> tElement.centerY]
    /\ tPc' = "done"
    /\ UNCHANGED <<lvars, platform, pvars, query, now, wvars, svars, fvars, tElement,
                   ivars, kvars, ovars>>

NextTap == TapFind \/ TapDevice

SpecTap == InitTap /\ [][NextTap]_vars

\* the matches of the call, in document order
TapMatches == findElement(platform, rawDoc, query.selector, query.strategy)

HasBox(e) == e.bounds # "" /\ Box(e.bounds) # <<>>

\* C15: tapOnElement makes exactly one deviceTap call, at the centre of the
\* first match in document order, when there is a match and the first match
\* has parseable bounds; with no match it fails naming strategy and
\* selector; when the first match has no valid bounds it fails even if a
\* later match has them; it makes no deviceTap call in either failure, and
\* none before the checks.
C15_TapFirstMatch ==
    /\ tPc \in {"find", "tap"} => taps = <<>>
    /\ (tPc = "done" /\ tResult.status # "failed") =>
          IF TapMatches = <<>>
          THEN /\ tResult = [status |-> "notFound", strategy |-> query.strategy,
                             selector |-> query.selector]
               /\ taps = <<>>
          ELSE IF ~HasBox(TapMatches[1])
          THEN tResult.status = "noBounds" /\ taps = <<>>
          ELSE /\ Len(taps) = 1
               /\ taps[1].x = BoxFields(Box(TapMatches[1].bounds)).centerX
               /\ taps[1].y = BoxFields(Box(TapMatches[1].bounds)).centerY
               /\ tResult.status \in {"success", "tapFailed"}

\* a call with several matches tapped the first one and returned success
C15_Witness ==
    /\ tPc = "done"
    /\ tResult.status = "success"
    /\ Len(TapMatches) >= 2
    /\ HasBox(TapMatches[2])
    /\ Box(TapMatches[2].bounds) # Box(TapMatches[1].bounds)
    /\ taps = <<[x |-> TapMatches[1].centerX, y |-> TapMatches[1].centerY,
                 outcome |-> "done"]>>

\* the first match has no valid bounds, a later one has: failure, no tap
C15_WitnessNoBounds ==
    /\ tPc = "done"
    /\ tResult.status = "noBounds"
    /\ \E i \in 2..Len(TapMatches) : HasBox(TapMatches[i])
    /\ taps = <<>>

\* nothing matched: not-found failure, no tap
C15_WitnessNotFound ==
    tPc = "done" /\ tResult.status = "notFound" /\ taps = <<>>

(***************************************************************************)
(* Both controllers: one call of waitForElement or of scrollToElement.     *)
(***************************************************************************)
InitControllers == InitWait \/ InitScroll

NextControllers == NextWait \/ NextScroll

SpecControllers == InitControllers /\ [][NextControllers]_vars

\* a hierarchy fetch of the call has failed
FetchFailed ==
    \/ \E j \in 1..Len(polls) : ~polls[j].ok
    \/ \E j \in 1..Len(log) : log[j].op = "find" /\ ~log[j].ok

\* the call is over, its last collaborator call is the failed fetch, and
\* what it reports is the failure
EndedWithFetchFailure ==
    IF wPc # "idle"
    THEN /\ wPc = "done"
         /\ wResult = [status |-> "failed"]
         /\ \A j \in 1..Len(polls) : ~polls[j].ok => j = Len(polls)
         /\ sleeps < Len(polls)
    ELSE /\ sPc = "done"
         /\ sResult = [status |-> "failed"]
         /\ \A j \in 1..Len(log) :
               (log[j].op = "find" /\ ~log[j].ok) => j = Len(log)

\* C16: once a hierarchy fetch has failed during a poll of waitForElement
\* or a query of scrollToElement the call is over and reports that failure
\* (not a match, a timeout or scroll exhaustion), and it takes no further
\* step: no fetch, no sleep, no swipe follows the failed fetch.
C16_FetchFailureEndsCall ==
    /\ [](FetchFailed => EndedWithFetchFailure)
    /\ [][~FetchFailed]_vars

\* waitForElement polled, slept, polled again, and the second fetch failed
C16_Witness ==
    /\ wPc = "done"
    /\ Len(polls) >= 2
    /\ sleeps = Len(polls) - 1
    /\ ~polls[Len(polls)].ok
    /\ wResult = [status |-> "failed"]

\* scrollToElement swiped, and the query after the swipe failed
C16_WitnessScroll ==
    /\ sPc = "done"
    /\ SwipeEvents # {}
    /\ log[Len(log)].op = "find" /\ ~log[Len(log)].ok
    /\ sResult = [status |-> "failed"]

(***************************************************************************)
(* JSON.parse on the text Maestro prints: objects, arrays, strings, true,  *)
(* false, null and unsigned integers, with blanks and line ends between    *)
(* tokens.  A value is [t |-> kind, ...]; a result is [ok, v, next].  The  *)
(* texts of the model hold no escape sequence: a backslash keeps the next  *)
(* character inside the string and both stay in the value.                 *)
(***************************************************************************)
Quote == "\""
Min(a, b) == IF a <= b THEN a ELSE b

\* s.substring(i - 1, j) in 1-based inclusive indices, cut at the end of s
Slice(s, i, j) == IF i > Min(j, Len(s)) THEN "" ELSE SubSeq(s, i, Min(j, Len(s)))

RECURSIVE SkipWs(_, _)
SkipWs(s, i) ==
    IF i <= Len(s) /\ CharAt(s, i) \in {" ", "\n"} THEN SkipWs(s, i + 1) ELSE i

JsonFail == [ok |-> FALSE]
JsonOk(v, next) == [ok |-> TRUE, v |-> v, next |-> next]

\* index of the quote that closes a string whose text starts at j (0: none)
RECURSIVE StringEnd(_, _)
StringEnd(s, j) ==
    IF j > Len(s) THEN 0
    ELSE IF CharAt(s, j) = Quote THEN j
    ELSE IF CharAt(s, j) = "\\" THEN StringEnd(s, j + 2)
    ELSE StringEnd(s, j + 1)

RECURSIVE ParseValue(_, _)
RECURSIVE ParseMembers(_, _, _)
RECURSIVE ParseElements(_, _, _)

\* after "{" or ",": a "key": value pair, then "," or "}"
ParseMembers(s, i, acc) ==
    LET e == StringEnd(s, i + 1)
        colon == SkipWs(s, e + 1)
        member == ParseValue(s, colon + 1)
        after == SkipWs(s, member.next)
        all == Append(acc, [k |-> Slice(s, i + 1, e - 1), v |-> member.v])
    IN  IF CharAt(s, i) # Quote \/ e = 0 \/ CharAt(s, colon) # ":" THEN JsonFail
        ELSE IF ~member.ok THEN JsonFail
        ELSE IF CharAt(s, after) = ","
        THEN ParseMembers(s, SkipWs(s, after + 1), all)
        ELSE IF CharAt(s, after) = "}"
        THEN JsonOk([t |-> "obj", m |-> all], after + 1)
        ELSE JsonFail

\* after "[" or ",": a value, then "," or "]"
ParseElements(s, i, acc) ==
    LET element == ParseValue(s, i)
        after == SkipWs(s, element.next)
        all == Append(acc, element.v)
    IN  IF ~element.ok THEN JsonFail
        ELSE IF CharAt(s, after) = ","
        THEN ParseElements(s, SkipWs(s, after + 1), all)
        ELSE IF CharAt(s, after) = "]"
        THEN JsonOk([t |-> "arr", e |-> all], after + 1)
        ELSE JsonFail

ParseValue(s, from) ==
    LET i == SkipWs(s, from)
        c == CharAt(s, i)
        inner == SkipWs(s, i + 1)
    IN  IF c = "{"
        THEN (IF CharAt(s, inner) = "}"
              THEN JsonOk([t |-> "obj", m |-> <<>>], inner + 1)
              ELSE ParseMembers(s, inner, <<>>))
        ELSE IF c = "["
        THEN (IF CharAt(s, inner) = "]"
              THEN JsonOk([t |-> "arr", e |-> <<>>], inner + 1)
              ELSE ParseElements(s, inner, <<>>))
        ELSE IF c = Quote
        THEN (IF StringEnd(s, i + 1) = 0 THEN JsonFail
              ELSE JsonOk([t |-> "str",
                           v |-> Slice(s, i + 1, StringEnd(s, i + 1) - 1)],
                          StringEnd(s, i + 1) + 1))
        ELSE IF Slice(s, i, i + 3) = "true"
        THEN JsonOk([t |-> "bool", v |-> TRUE], i + 4)
        ELSE IF Slice(s, i, i + 4) = "false"
        THEN JsonOk([t |-> "bool", v |-> FALSE], i + 5)
        ELSE IF Slice(s, i, i + 3) = "null"
        THEN JsonOk([t |-> "null"], i + 4)
        ELSE IF IsDigit(c)
        THEN JsonOk([t |-> "num", v |-> parseInt(s, i, DigitRunEnd(s, i))],
                    DigitRunEnd(s, i) + 1)
        ELSE JsonFail

\* JSON.parse(s): one value and nothing but blanks after it
JSONparse(s) ==
    LET r == ParseValue(s, 1)
    IN  IF r.ok /\ SkipWs(s, r.next) = Len(s) + 1 THEN r ELSE JsonFail

\* obj[key] of a parsed value (the last of several equal keys); [t |-> "undefined"]
\* when obj is no object or has no such key
Undefined == [t |-> "undefined"]
Member(obj, key) ==
    IF obj.t # "obj" THEN Undefined
    ELSE LET at == {j \in 1..Len(obj.m) : obj.m[j].k = key}
         IN  IF at = {} THEN Undefined
             ELSE obj.m[CHOOSE j \in at : \A h \in at : h <= j].v

\* obj[key] || "" for the string attributes Maestro prints
StringMember(obj, key) ==
    IF Member(obj, key).t = "str" THEN Member(obj, key).v ELSE ""

\* the parsed JSON object read as pruneAndSimplifyMaestroNode reads it
RECURSIVE AsMaestroTreeNode(_)
AsMaestroTreeNode(v) ==
    LET attributes == Member(v, "attributes")
        children == Member(v, "children")
        IsTrue(key) == Member(v, key) = [t |-> "bool", v |-> TRUE]
    IN  [attributes |->
            [text |-> StringMember(attributes, "text"),
             accessibilityText |-> StringMember(attributes, "accessibilityText"),
             title |-> StringMember(attributes, "title"),
             value |-> StringMember(attributes, "value"),
             resource_id |-> StringMember(attributes, "resource-id"),
             hintText |-> StringMember(attributes, "hintText"),
             bounds |-> StringMember(attributes, "bounds")],
         children |-> IF children.t = "arr"
                      THEN [j \in 1..Len(children.e) |->
                               AsMaestroTreeNode(children.e[j])]
                      ELSE <<>>,
         clickable |-> IsTrue("clickable"), enabled |-> IsTrue("enabled"),
         focused |-> IsTrue("focused"), selected |-> IsTrue("selected")]

\* Variant: rawOutput.lastIndexOf(ch).
lastIndexOf(s, ch) ==
    LET at == {j \in 1..Len(s) : CharAt(s, j) = ch}
    IN  IF at = {} THEN 0 ELSE CHOOSE j \in at : \A h \in at : h <= j

\* rawOutput.indexOf(ch), 1-based; 0 when ch does not occur
indexOf(s, ch) ==
    LET at == {j \in 1..Len(s) : CharAt(s, j) = ch}
    IN  IF at = {} THEN 0 ELSE CHOOSE j \in at : \A h \in at : j <= h

(***************************************************************************)
(* What `maestro hierarchy` prints: the JSON text of a tree, after a       *)
(* prefix, possibly cut short or followed by more output; or no JSON.      *)
(***************************************************************************)
JsonString(s) == Quote \o s \o Quote
JsonFlag(b) == IF b THEN "true" ELSE "false"

RECURSIVE JoinWithCommas(_)
JoinWithCommas(parts) ==
    IF parts = <<>> THEN ""
    ELSE IF Len(parts) = 1 THEN parts[1]
    ELSE parts[1] \o "," \o JoinWithCommas(Tail(parts))

\* "key":"value" of every attribute that is there
AttributeMembers(a) ==
    LET pairs == << <<"text", a.text>>,
                    <<"accessibilityText", a.accessibilityText>>,
                    <<"title", a.title>>, <<"value", a.value>>,
                    <<"resource-id", a.resource_id>>,
                    <<"hintText", a.hintText>>, <<"bounds", a.bounds>> >>
        Present(pair) == pair[2] # ""
        there == SelectSeq(pairs, Present)
    IN  [j \in 1..Len(there) |->
            JsonString(there[j][1]) \o ":" \o JsonString(there[j][2])]

RECURSIVE JsonText(_)
JsonText(n) ==
    "{" \o JsonString("attributes") \o ":{"
        \o JoinWithCommas(AttributeMembers(n.attributes)) \o "},"
        \o JsonString("children") \o ":["
        \o JoinWithCommas([j \in 1..Len(n.children) |-> JsonText(n.children[j])])
        \o "]," \o JsonString("clickable") \o ":" \o JsonFlag(n.clickable)
        \o ", " \o JsonString("enabled") \o ":" \o JsonFlag(n.enabled)
        \o ",\n" \o JsonString("focused") \o ":" \o JsonFlag(n.focused)
        \o "," \o JsonString("selected") \o ":" \o JsonFlag(n.selected) \o "}"

IosPrefixes == {"", "None: ", "Warning {1}\n"}
IosDamages == {"none", "cut", "trailing"}
IosNoJson == {"", "None: ", "Error: device not found\n"}

IosOutput(prefix, doc, damage) ==
    LET text == JsonText(doc)
    IN  prefix \o (CASE damage = "none" -> text
                     [] damage = "cut" -> SubSeq(text, 1, Len(text) - 1)
                     [] damage = "trailing" -> text \o "\nDone")

RawPrefixLen == 200   \* hierarchy.ts:277 / :293  `substring(0, 200)`

(***************************************************************************)
(* getSemanticHierarchy on iOS: dump, find the JSON start, parse, prune.   *)
(***************************************************************************)
InitIos ==
    /\ LogsIdle
    /\ query = NoCall /\ now = 0 /\ WaitIdle /\ ScrollIdle /\ FindIdle /\ TapIdle
    /\ OthersIdle
    /\ platform = "ios"
    /\ hierarchy = NotStarted /\ rehierarchy = NotStarted /\ stage = "idle"
    /\ iPc = "dump" /\ dumps = 0 /\ pruneRuns = 0 /\ iResult = NoCall
    /\ \/ \E out \in IosNoJson :
            /\ rawDoc = NoCall
            /\ iosCase = [kind |-> "noJson"]
            /\ rawOutput = out
       \/ \E prefix \in IosPrefixes, damage \in IosDamages :
            /\ rawDoc \in FindDocuments("ios", MaxNodes)
            /\ iosCase = [kind |-> "json", prefix |-> prefix,
                          damage |-> damage]
            /\ rawOutput = IosOutput(prefix, rawDoc, damage)

\* const rawOutput = await getIosHierarchy(deviceId): the command runs once;
\* it prints rawOutput, or it fails and the error is thrown on
IosDump ==
    /\ iPc = "dump"
    /\ dumps' = dumps + 1
    /\ \/ iPc' = "done" /\ iResult' = [status |-> "acquisition"]
       \/ iPc' = "parse" /\ UNCHANGED iResult
    /\ UNCHANGED <<lvars, platform, pvars, query, now, wvars, svars, fvars, tvars,
                   rawOutput, iosCase, pruneRuns, kvars, ovars>>

\* lines 274-296: indexOf("{"), substring, JSON.parse, prune
IosParse ==
    /\ iPc = "parse"
    /\ LET jsonStartIndex == indexOf(rawOutput, "{")
           jsonString == Slice(rawOutput, jsonStartIndex, Len(rawOutput))
           parsedJson == JSONparse(jsonString)
       IN  IF jsonStartIndex = 0
           THEN /\ iResult' = [status |-> "noJson",
                               raw |-> Slice(rawOutput, 1, RawPrefixLen)]
                /\ UNCHANGED <<hierarchy, pruneRuns>>
           ELSE IF ~parsedJson.ok
           THEN /\ iResult' = [status |-> "parse",
                               raw |-> Slice(jsonString, 1, RawPrefixLen)]
                /\ UNCHANGED <<hierarchy, pruneRuns>>
           ELSE /\ hierarchy' = pruneAndSimplifyMaestroNode(
                                    AsMaestroTreeNode(parsedJson.v))
                /\ pruneRuns' = pruneRuns + 1
                /\ iResult' = [status |-> "returned"]
    /\ iPc' = "done"
    /\ UNCHANGED <<lvars, platform, rawDoc, rehierarchy, stage, query, now, wvars,
                   svars, fvars, tvars, rawOutput, iosCase, dumps, kvars,
                   ovars>>

NextIos == IosDump \/ IosParse

SpecIos == InitIos /\ [][NextIos]_vars

\* C17: on iOS getSemanticHierarchy runs the dump once; if the dump fails
\* it throws that; if the output has no "{" it throws the no-JSON failure;
\* otherwise it parses the text from the first "{" on, and if that is not
\* valid JSON (the prefix held a "{", the text was cut, more output
\* followed) it throws the parse failure showing that text; the pruner runs
\* only after a successful parse, and the call then returns the pruned tree
\* of the document printed, which is null when the root prunes to nothing.
C17_IosParseContract ==
    /\ dumps <= 1
    /\ iPc # "done" => pruneRuns = 0 /\ hierarchy = NotStarted
    /\ iPc = "done" =>
          IF iResult.status = "acquisition"
          THEN dumps = 1 /\ pruneRuns = 0 /\ hierarchy = NotStarted
          ELSE IF iosCase.kind = "noJson"
          THEN /\ iResult.status = "noJson"
               /\ pruneRuns = 0 /\ hierarchy = NotStarted
          ELSE IF iosCase.damage # "none" \/ includes(iosCase.prefix, "{")
          THEN /\ iResult.status = "parse"
               /\ pruneRuns = 0 /\ hierarchy = NotStarted
               /\ SubSeq(iResult.raw, 1, 1) = "{"
               /\ \E j \in 1..Len(rawOutput) :
                     /\ ~includes(SubSeq(rawOutput, 1, j - 1), "{")
                     /\ iResult.raw
                          = Slice(rawOutput, j, j + RawPrefixLen - 1)
          ELSE /\ iResult.status = "returned"
               /\ pruneRuns = 1
               /\ hierarchy = pruneAndSimplifyMaestroNode(rawDoc)

\* a tree with a child, printed after the prefix "None: ", came back pruned
C17_Witness ==
    /\ iPc = "done"
    /\ iResult.status = "returned"
    /\ iosCase.prefix = "None: "
    /\ Len(rawDoc.children) > 0
    /\ hierarchy # Null
    /\ hierarchy = pruneAndSimplifyMaestroNode(rawDoc)

\* the root pruned to nothing and the call returned null
C17_WitnessAbsent ==
    iPc = "done" /\ iResult.status = "returned" /\ hierarchy = Null

\* output without "{", and output whose text from the first "{" is no JSON
C17_WitnessNoJson == iPc = "done" /\ iResult.status = "noJson"
C17_WitnessParse ==
    iPc = "done" /\ iResult.status = "parse" /\ iosCase.damage = "none"

(***************************************************************************)
(* deviceType (interaction/input.ts): one call, on a device that has some  *)
(* input method selected.  The text is the sequence of its code points.    *)
(***************************************************************************)
AdbIME == "com.android.adbkeyboard/.AdbIME"
Imes == {"Gboard", "SwiftKey", AdbIME}

\* h, blank, e-acute, Cyrillic pe
CodePoints == {104, 32, 233, 1087}

RECURSIVE TextsOfLength(_)
TextsOfLength(n) ==
    IF n = 0 THEN {<<>>}
    ELSE { Append(t, c) : t \in TextsOfLength(n - 1), c \in CodePoints }

TypeTexts(max) == UNION { TextsOfLength(n) : n \in 0..max }

\* /^[\x00-\x7F]*$/.test(text)
isAscii(t) == \A j \in 1..Len(t) : t[j] >= 0 /\ t[j] <= 127

\* text.replace(/\s/g, "%s")
RECURSIVE escapeSpaces(_)
escapeSpaces(t) ==
    IF t = <<>> THEN <<>>
    ELSE (IF Head(t) = 32 THEN <<37, 115>> ELSE <<Head(t)>>)
         \o escapeSpaces(Tail(t))

\* how one adb command ends
ExecOutcomes == {"done", "threw"}

\* how runMaestroFlow ends: the flow ran, the call threw, or the flow failed
\* and its output was returned
MaestroOutcomes == {"done", "threw", "failedWithOutput"}

InitType ==
    /\ LogsIdle
    /\ query = NoCall /\ now = 0 /\ WaitIdle /\ ScrollIdle /\ FindIdle /\ TapIdle
    /\ IosIdle /\ OcrIdle
    /\ rawDoc = NoCall /\ hierarchy = NotStarted /\ rehierarchy = NotStarted
    /\ stage = "idle"
    /\ platform \in {"android", "ios"}
    /\ typeText \in TypeTexts(MaxTypeLen)
    /\ activeIme \in Imes
    /\ imeAtCall = activeIme
    /\ adbKeyboardInstalled \in {b \in BOOLEAN : activeIme = AdbIME => b}
    /\ hasAdbKeyboard = FALSE
    /\ kPc = "start" /\ kLog = <<>> /\ kResult = NoCall

TypeFrame == <<lvars, platform, pvars, query, now, wvars, svars, fvars, tvars, ivars,
               ovars, typeText, imeAtCall, adbKeyboardInstalled>>

\* the branches on platform and isAscii
TypeStart ==
    /\ kPc = "start"
    /\ kPc' = IF platform # "android" THEN "maestro"
              ELSE IF isAscii(typeText) THEN "inputText" ELSE "pmList"
    /\ UNCHANGED <<TypeFrame, activeIme, hasAdbKeyboard, kLog, kResult>>

\* await execAsync(`adb ... shell input text "${escapedText}"`)
TypeInputText ==
    /\ kPc = "inputText"
    /\ \E outcome \in ExecOutcomes :
         /\ kLog' = Append(kLog, [cmd |-> "input text",
                                  arg |-> escapeSpaces(typeText)])
         /\ kResult' = IF outcome = "threw" THEN "threw" ELSE "returned"
    /\ kPc' = "done"
    /\ UNCHANGED <<TypeFrame, activeIme, hasAdbKeyboard>>

\* `pm list packages com.android.adbkeyboard` inside try / catch
TypePmList ==
    /\ kPc = "pmList"
    /\ \E outcome \in ExecOutcomes :
         /\ kLog' = Append(kLog, [cmd |-> "pm list packages", arg |-> <<>>])
         /\ hasAdbKeyboard' = (outcome = "done" /\ adbKeyboardInstalled)
         /\ kPc' = IF hasAdbKeyboard' THEN "imeSet" ELSE "maestro"
    /\ UNCHANGED <<TypeFrame, activeIme, kResult>>

\* await execAsync(`adb ... shell ime set com.android.adbkeyboard/.AdbIME`)
TypeImeSet ==
    /\ kPc = "imeSet"
    /\ \E outcome \in ExecOutcomes :
         /\ kLog' = Append(kLog, [cmd |-> "ime set", arg |-> AdbIME])
         /\ IF outcome = "threw"
            THEN kPc' = "done" /\ kResult' = "threw" /\ UNCHANGED activeIme
            ELSE kPc' = "broadcast" /\ activeIme' = AdbIME /\ UNCHANGED kResult
    /\ UNCHANGED <<TypeFrame, hasAdbKeyboard>>

\* await execAsync(`adb ... shell am broadcast -a ADB_INPUT_TEXT ...`); the
\* function ends after it: no command selects another input method
TypeBroadcast ==
    /\ kPc = "broadcast"
    /\ \E outcome \in ExecOutcomes :
         /\ kLog' = Append(kLog, [cmd |-> "am broadcast", arg |-> typeText])
         /\ kResult' = IF outcome = "threw" THEN "threw" ELSE "returned"
    /\ kPc' = "done"
    /\ UNCHANGED <<TypeFrame, activeIme, hasAdbKeyboard>>

\* await runMaestroFlow(deviceId, `- inputText: "${text}"`)
TypeMaestro ==
    /\ kPc = "maestro"
    /\ \E outcome \in MaestroOutcomes :
         /\ kLog' = Append(kLog, [cmd |-> "maestro inputText", arg |-> typeText])
         /\ kResult' = IF outcome = "threw" THEN "threw" ELSE "returned"
    /\ kPc' = "done"
    /\ UNCHANGED <<TypeFrame, activeIme, hasAdbKeyboard>>

NextType ==
    \/ TypeStart
    \/ TypeInputText
    \/ TypePmList
    \/ TypeImeSet
    \/ TypeBroadcast
    \/ TypeMaestro

SpecType == InitType /\ [][NextType]_vars

\* C18: when a deviceType call on Android has returned, the input method
\* selected on the device is the one that was selected when the call began.
C18_KeyboardRestored ==
    (platform = "android" /\ kPc = "done" /\ kResult = "returned")
        => activeIme = imeAtCall

\* the part of C18 that the code keeps: ASCII text never runs `ime set`
C18_AsciiNeverSwitches ==
    (platform = "android" /\ isAscii(typeText)) =>
        /\ activeIme = imeAtCall
        /\ \A j \in 1..Len(kLog) : kLog[j].cmd # "ime set"

(***************************************************************************)
(* OCR language (perception/ocr.ts): configureOcr and getScreenText calls  *)
(* of one session.  configureOcr is synchronous; getScreenText awaits the  *)
(* screenshot before it reads the default, so a configureOcr can run while *)
(* a getScreenText is in flight.  An absent language argument is "".       *)
(***************************************************************************)
DefaultLanguage == "eng"
Languages == {"eng", "fra", "deu,fra"}

\* paramsLang.replace(/,/g, "+")
RECURSIVE replaceCommas(_)
replaceCommas(s) ==
    IF s = "" THEN ""
    ELSE (IF SubSeq(s, 1, 1) = "," THEN "+" ELSE SubSeq(s, 1, 1))
         \o replaceCommas(SubSeq(s, 2, Len(s)))

\* Variant: the stored default is not consulted.
ResolveLanguageIgnoringDefault(language, default) ==
    FirstNonEmpty(<<language, DefaultLanguage>>)

\* language || globalDefaultLanguage || "eng"
ResolveLanguage(language, default) ==
    FirstNonEmpty(<<language, default, DefaultLanguage>>)

InitOcr ==
    /\ LogsIdle
    /\ query = NoCall /\ now = 0 /\ WaitIdle /\ ScrollIdle /\ FindIdle /\ TapIdle
    /\ IosIdle /\ TypeIdle
    /\ rawDoc = NoCall /\ hierarchy = NotStarted /\ rehierarchy = NotStarted
    /\ stage = "idle"
    /\ platform \in {"android", "ios"}
    /\ globalDefaultLanguage = DefaultLanguage
    /\ oArg = "" /\ oPc = "idle" /\ ocrLog = <<>>

OcrFrame == <<lvars, platform, pvars, query, now, wvars, svars, fvars, tvars, ivars,
              kvars>>

\* configureOcr(language)
ConfigureOcr ==
    /\ Len(ocrLog) < MaxOcrEvents
    /\ \E language \in Languages :
         /\ globalDefaultLanguage' = language
         /\ ocrLog' = Append(ocrLog, [op |-> "configure", language |-> language])
    /\ UNCHANGED <<OcrFrame, oArg, oPc>>

\* getScreenText(deviceId, platform, language?) is called
ScreenTextCall ==
    /\ oPc = "idle"
    /\ Len(ocrLog) < MaxOcrEvents
    /\ oArg' \in Languages \cup {""}
    /\ oPc' = "viewport"
    /\ ocrLog' = Append(ocrLog, [op |-> "call", language |-> oArg'])
    /\ UNCHANGED <<OcrFrame, globalDefaultLanguage>>

\* await getViewport(...) ends; the language is resolved and handed to
\* createWorker
ScreenTextResolve ==
    /\ oPc = "viewport"
    /\ \/ /\ oPc' = "idle"
          /\ ocrLog' = Append(ocrLog, [op |-> "threw"])
       \/ LET paramsLang == ResolveLanguage(oArg, globalDefaultLanguage)
              finalLang == replaceCommas(paramsLang)
          IN  /\ oPc' = "worker"
              /\ ocrLog' = Append(ocrLog, [op |-> "use", argument |-> oArg,
                                           language |-> paramsLang,
                                           worker |-> finalLang])
    /\ UNCHANGED <<OcrFrame, globalDefaultLanguage, oArg>>

\* createWorker, recognize, terminate: the call returns the text or throws
ScreenTextEnd ==
    /\ oPc = "worker"
    /\ oPc' = "idle"
    /\ UNCHANGED <<OcrFrame, globalDefaultLanguage, oArg, ocrLog>>

NextOcr == ConfigureOcr \/ ScreenTextCall \/ ScreenTextResolve \/ ScreenTextEnd

SpecOcr == InitOcr /\ [][NextOcr]_vars

\* the language of the last configureOcr before event j, "eng" if none
LastConfigured(j) ==
    LET before == {h \in 1..(j - 1) : ocrLog[h].op = "configure"}
    IN  IF before = {} THEN "eng"
        ELSE ocrLog[CHOOSE h \in before : \A g \in before : g <= h].language

C19_WitnessDefault ==
    \E d \in 1..Len(ocrLog) :
        /\ ocrLog[d].op = "use" /\ ocrLog[d].argument = ""
        /\ ocrLog[d].language = "eng"
        /\ \A h \in 1..d : ocrLog[h].op # "configure"

(***************************************************************************)
(* Termination of the controllers.  Each step of a call is the resumption  *)
(* of an async function after an awaited promise has settled; when every   *)
(* collaborator call returns and every timer fires, the event loop takes   *)
(* the step, which is weak fairness of the steps.                          *)
(***************************************************************************)
SpecControllersFair ==
    InitControllers /\ [][NextControllers]_vars /\ WF_vars(NextControllers)

\* C20: every waitForElement call and every scrollToElement call ends: it
\* returns or throws (match, timeout, scroll exhaustion or a collaborator
\* failure) after finitely many steps.
C20_ControllersEnd == <>(wPc = "done" \/ sPc = "done")

\* a waitForElement call polled and slept several times and then timed out
C20_Witness ==
    /\ wPc = "done"
    /\ wResult.status = "timeout"
    /\ Len(polls) >= 3
    /\ sleeps = Len(polls)

\* a scrollToElement call swiped maxScrolls times and then gave up
C20_WitnessScroll ==
    /\ sPc = "done"
    /\ sResult.status = "notfound"
    /\ maxScrolls >= 3
    /\ Cardinality(SwipeEvents) = maxScrolls

(***************************************************************************)
(* The flattening and pruning rules, raw node by raw node.                 *)
(***************************************************************************)
\* what the pruning engine of the platform returns for one raw node
PrunedNode(r) ==
    IF platform = "android" THEN pruneAndSimplifyAndroidNode(r)
    ELSE pruneAndSimplifyMaestroNode(r)

\* the `children` array of the engine when it has looped over r's children
Surviving(r) ==
    IF platform = "android" THEN AndroidChildren(RawKids(r))
    ELSE MaestroChildren(RawKids(r))

\* what stands for the raw node r in the result of the call
OutputOf(r) == IF r = RawRoot THEN hierarchy ELSE PrunedNode(r)

NoIdentity(r) == RawId(r) = "" /\ RawText(r) = "" /\ RawDesc(r) = ""

ButtonOrText(n) == includes(n.type, "Button") \/ includes(n.type, "Text")

\* a raw node the flattening rule is about, and its exceptional case
SingleChildWrapper(r) == NoIdentity(r) /\ Len(Surviving(r)) = 1
KeptTapTarget(r) ==
    /\ SingleChildWrapper(r)
    /\ RawClickable(r)
    /\ ~Surviving(r)[1].clickable
    /\ ~ButtonOrText(Surviving(r)[1])

\* C21: a node with no resourceId, text or contentDesc and exactly one
\* surviving child is replaced by that child, unless it is clickable and the
\* child is neither clickable nor of a Button/Text type: then the node is
\* kept, clickable, with the child as its only child, and is part of the
\* result.
C21_FlatteningRule ==
    Pruned =>
      \A r \in RawNodesOf(RawRoot) :
          SingleChildWrapper(r) =>
              IF KeptTapTarget(r)
              THEN /\ OutputOf(r) # Null
                   /\ OutputOf(r).type = RawType(r)
                   /\ OutputOf(r).clickable
                   /\ OutputOf(r).children = <<Surviving(r)[1]>>
                   /\ OutputOf(r) \in NodesOf(hierarchy)
              ELSE OutputOf(r) = Surviving(r)[1]

\* C21 case: the root is a clickable wrapper kept over a child that is not a
\* tap target, and that child stands for a wrapper that was collapsed.
C21_Witness ==
    /\ Pruned
    /\ KeptTapTarget(RawRoot)
    /\ Len(hierarchy.children) = 1
    /\ \E r \in RawNodesOf(RawRoot) :
           r # RawRoot /\ SingleChildWrapper(r) /\ ~KeptTapTarget(r)

\* C21 case: a clickable wrapper over a non-clickable TextView was collapsed.
C21_WitnessTextChild ==
    /\ Pruned
    /\ SingleChildWrapper(RawRoot) /\ RawClickable(RawRoot)
    /\ ~Surviving(RawRoot)[1].clickable
    /\ hierarchy.type = "android.widget.TextView"

(***************************************************************************)
(* Whitespace-only content.  String.prototype.trim removes the white space *)
(* at both ends; the engines never call it (`hasContent = text ||          *)
(* contentDesc` takes " " for content).                                    *)
(***************************************************************************)
WhiteSpace == {" ", "\t", "\n", "\r"}

RECURSIVE trimStart(_)
trimStart(s) ==
    IF s # "" /\ SubSeq(s, 1, 1) \in WhiteSpace
    THEN trimStart(SubSeq(s, 2, Len(s))) ELSE s

RECURSIVE trimEnd(_)
trimEnd(s) ==
    IF s # "" /\ SubSeq(s, Len(s), Len(s)) \in WhiteSpace
    THEN trimEnd(SubSeq(s, 1, Len(s) - 1)) ELSE s

trim(s) == trimEnd(trimStart(s))

\* a raw node without resourceId whose text and contentDesc trim to nothing
\* although one of them is written
WhitespaceOnly(r) ==
    /\ RawId(r) = ""
    /\ trim(RawText(r)) = "" /\ trim(RawDesc(r)) = ""
    /\ RawText(r) # "" \/ RawDesc(r) # ""

\* C22: a node whose text and contentDesc are empty after trimming is treated
\* as having no content: as a non-clickable leaf without resourceId it is
\* dropped, and as a single-child wrapper it is flattened like a node without
\* identity.
C22_WhitespaceIsNoContent ==
    Pruned =>
      \A r \in RawNodesOf(RawRoot) :
          WhitespaceOnly(r) =>
              /\ (Surviving(r) = <<>> /\ ~RawClickable(r)) => OutputOf(r) = Null
              /\ (Len(Surviving(r)) = 1
                    /\ FlattenAllowed(RawClickable(r), Surviving(r)[1]))
                   => OutputOf(r) = Surviving(r)[1]

(***************************************************************************)
(* The swipe vector of scrollToElement.  Coordinates in the log are twice  *)
(* the values handed to deviceSwipe.                                       *)
(***************************************************************************)
Abs(n) == IF n < 0 THEN -n ELSE n

\* the screen in the unit of the hierarchy coordinates: points on iOS (three
\* pixels to the point), pixels on Android
PointsPerPixelDivisor == IF platform = "ios" THEN 1 + 2 ELSE 1
ScaledWidth == RoundDiv(viewport.originalWidth, PointsPerPixelDivisor)
ScaledHeight == RoundDiv(viewport.originalHeight, PointsPerPixelDivisor)

Vertical == direction \in {"up", "down"}
AxisExtent == IF Vertical THEN ScaledHeight ELSE ScaledWidth

\* twice the length of a swipe (a swipe runs along one axis)
SwipeLength2(c) == Abs(c.x2 - c.x1) + Abs(c.y2 - c.y1)

\* C23: the length of every swipe is one third of the screen extent along
\* the scroll axis, the scaled height for up and down, the scaled width for
\* left and right (to within the one unit that rounding can cost).
C23_SwipeLengthThirdOfAxis ==
    \A j \in SwipeEvents :
        Abs(3 * SwipeLength2(log[j].coords) - 2 * AxisExtent) <= 2 * 3

\* twice the centre of the screen
Center2X == 2 * RoundDiv(ScaledWidth, 2)
Center2Y == 2 * RoundDiv(ScaledHeight, 2)

\* C24: the swipe opposes the requested scroll and is centred on the screen
\* centre: down has x1 = x2 = centerX and y1 > centerY > y2, up has
\* y1 < centerY < y2, right has y1 = y2 = centerY and x1 > centerX > x2, left
\* has x1 < centerX < x2; start and end are equally far from the centre, and
\* every swipe of the call uses the same vector.
C24_SwipeInvertedAndCentred ==
    \A j \in SwipeEvents :
        LET c == log[j].coords
        IN  RoundDiv(ScaledHeight, 3) > 0 =>
            /\ c = swipeCoords
            /\ c = log[CHOOSE k \in SwipeEvents : TRUE].coords
            /\ Vertical => c.x1 = Center2X /\ c.x2 = Center2X
            /\ ~Vertical => c.y1 = Center2Y /\ c.y2 = Center2Y
            /\ direction = "down" => c.y1 > Center2Y /\ Center2Y > c.y2
            /\ direction = "up" => c.y1 < Center2Y /\ Center2Y < c.y2
            /\ direction = "right" => c.x1 > Center2X /\ Center2X > c.x2
            /\ direction = "left" => c.x1 < Center2X /\ Center2X < c.x2
            /\ c.x1 - Center2X = Center2X - c.x2
            /\ c.y1 - Center2Y = Center2Y - c.y2

\* C24 case: three swipes to scroll down were issued.
C24_Witness ==
    /\ direction = "down"
    /\ Cardinality(SwipeEvents) = 3
    /\ log[3].coords.y1 > log[3].coords.y2

\* C24 case: two swipes to scroll left were issued.
C24_WitnessLeft ==
    /\ direction = "left"
    /\ Cardinality(SwipeEvents) = 2
    /\ log[3].coords.x1 < log[3].coords.x2

\* the swipe vector worked out from a screen of w by h units
VectorFor(w, h) ==
    LET cx == RoundDiv(w, 2)
        cy == RoundDiv(h, 2)
        d == RoundDiv(h, 3)
    IN  [x1 |-> 2 * cx + (CASE direction = "right" -> d
                            [] direction = "left" -> -d [] OTHER -> 0),
         y1 |-> 2 * cy + (CASE direction = "down" -> d
                            [] direction = "up" -> -d [] OTHER -> 0),
         x2 |-> 2 * cx - (CASE direction = "right" -> d
                            [] direction = "left" -> -d [] OTHER -> 0),
         y2 |-> 2 * cy - (CASE direction = "down" -> d
                            [] direction = "up" -> -d [] OTHER -> 0)]

\* C25: the viewport's originalWidth and originalHeight are divided by the
\* scale factor of the platform, 3 on iOS and 1 on Android, before the centre
\* and the distance are worked out: every swipe coordinate on iOS is the one
\* Android gets from a viewport one third the size.
C25_ScaleBeforeVector ==
    \A j \in SwipeEvents :
        /\ platform = "android" =>
             log[j].coords = VectorFor(viewport.originalWidth,
                                       viewport.originalHeight)
        /\ platform = "ios" =>
             log[j].coords = VectorFor(RoundDiv(viewport.originalWidth, 3),
                                       RoundDiv(viewport.originalHeight, 3))

\* C25 case: an iOS swipe on the 1170 x 2532 pixel screen (390 x 844 points)
\* runs from (195, 422 + 281/2) to (195, 422 - 281/2).
C25_Witness ==
    /\ platform = "ios" /\ direction = "down"
    /\ viewport # NoCall /\ viewport.originalWidth = 1170
    /\ SwipeEvents # {}
    /\ log[3].coords = [x1 |-> 390, y1 |-> 844 + 281, x2 |-> 390,
                        y2 |-> 844 - 281]

\* C25 case: the same pixel screen on Android is swiped in pixels.
C25_WitnessAndroid ==
    /\ platform = "android" /\ direction = "down"
    /\ viewport # NoCall /\ viewport.originalWidth = 1170
    /\ SwipeEvents # {}
    /\ log[3].coords = [x1 |-> 1170, y1 |-> 2532 + 844, x2 |-> 1170,
                        y2 |-> 2532 - 844]

(***************************************************************************)
(* The normalised tree before pruning: what both engines read from a raw   *)
(* node (hierarchy.ts:180-194 and :86-110), with every child kept.         *)
(***************************************************************************)
RECURSIVE Normalized(_)
Normalized(r) ==
    LET kids == [i \in 1..Len(RawKids(r)) |-> Normalized(RawKids(r)[i])]
    IN  IF platform = "android"
        THEN SimplifiedNode(RawType(r), truncateText(RawText(r)), RawId(r),
                 RawDesc(r), r.attr.bounds, r.attr.clickable = "true",
                 r.attr.enabled = "true", r.attr.focused = "true",
                 r.attr.selected = "true", kids)
        ELSE SimplifiedNode(RawType(r), truncateText(RawText(r)), RawId(r),
                 RawDesc(r), r.attributes.bounds, r.clickable = TRUE,
                 r.enabled = TRUE, r.focused = TRUE, r.selected = TRUE, kids)

\* the nodes of a tree that some selector can match, in document order,
\* children aside
Matchable(n) ==
    LET kept == SelectSeq(PreOrder(n), HasIdentityOrContent)
    IN  [i \in 1..Len(kept) |-> Attributes(kept[i])]

\* C26: pruning neither removes nor reorders a node that can match: the
\* nodes with a resourceId, text or contentDesc are the same, with the same
\* attributes and in the same document order, in the pruned tree and in the
\* normalised tree before pruning; so findElement returns what the same
\* search returns on the unpruned tree.
C26_PruningKeepsMatchable ==
    fPc = "done" =>
        /\ Matchable(Normalized(RawRoot))
             = (IF hierarchy = Null THEN <<>> ELSE Matchable(hierarchy))
        /\ matches = traverse(Normalized(RawRoot), query.selector,
                              query.strategy)

\* C26 case: pruning dropped a leaf next to a matching one, and the search
\* returned two elements, one of them the root.
C26_Witness ==
    /\ fPc = "done"
    /\ hierarchy # Null
    /\ NodeCount(hierarchy) + 1 = RawNodeCount(RawRoot)
    /\ Len(hierarchy.children) = 1
    /\ Len(matches) = 2

\* C26 case: two wrappers were collapsed over the one element returned.
C26_WitnessFlattened ==
    /\ fPc = "done"
    /\ hierarchy # Null
    /\ NodeCount(hierarchy) + 2 = RawNodeCount(RawRoot)
    /\ ~HasIdentityOrContent(Normalized(RawRoot))
    /\ Len(matches) = 1

\* C26 case: nothing of the raw tree can match, the pruned tree is absent.
C26_WitnessAbsent ==
    /\ fPc = "done"
    /\ hierarchy = Null
    /\ RawNodeCount(RawRoot) = 3
    /\ matches = <<>>

(***************************************************************************)
(* Tap targets through pruning.                                            *)
(***************************************************************************)
\* the pruned tree holds the raw node r, or a node of r's subtree, as a
\* clickable node
TapTargetKept(r) ==
    /\ hierarchy # Null
    /\ \E d \in RawNodesOf(r) :
          /\ RawClickable(d)
          /\ \E n \in NodesOf(hierarchy) :
                n.clickable /\ Attributes(n) = Attributes(Normalized(d))

\* the flattening rule replaced the clickable wrapper r by a single child
\* that is not clickable but of a Button/Text type
ReplacedByLabel(r) ==
    /\ SingleChildWrapper(r)
    /\ RawClickable(r)
    /\ ~Surviving(r)[1].clickable
    /\ ButtonOrText(Surviving(r)[1])
    /\ OutputOf(r) = Surviving(r)[1]
    /\ Surviving(r)[1] \in NodesOf(hierarchy)

\* C27 (as stated): for every clickable raw node the pruned tree contains
\* that node, still clickable, or a clickable node taken from its subtree.
C27_TapTargetsKept ==
    Pruned => \A r \in RawNodesOf(RawRoot) : RawClickable(r) => TapTargetKept(r)

\* C27 (amended): for every clickable raw node the pruned tree contains that
\* node, still clickable, or a clickable node of its subtree, or the node
\* had no resourceId, text or contentDesc and one surviving child, not
\* clickable and of a Button/Text type, which stands in its place.
C27_TapTargetsKeptOrLabelled ==
    Pruned =>
      \A r \in RawNodesOf(RawRoot) :
          RawClickable(r) => TapTargetKept(r) \/ ReplacedByLabel(r)

\* C27 case: a clickable wrapper was replaced by its TextView, the pruned
\* tree has no clickable node left; a clickable leaf beside it would be kept.
C27_Witness ==
    /\ Pruned
    /\ RawClickable(RawRoot)
    /\ ReplacedByLabel(RawRoot)
    /\ \A n \in NodesOf(hierarchy) : ~n.clickable

\* C27 case: a clickable wrapper collapsed into its clickable child, and a
\* clickable leaf kept.
C27_WitnessKept ==
    /\ Pruned
    /\ RawClickable(RawRoot) /\ SingleChildWrapper(RawRoot)
    /\ hierarchy.clickable /\ hierarchy.children = <<>>
    /\ hierarchy.text # ""

(***************************************************************************)
(* waitForElement with a timeout that leaves no time.                      *)
(***************************************************************************)
\* C28: waitForElement makes at least one fetch + find before it reports a
\* timeout, whatever timeoutMs is (0 and negative values too); so the call
\* never times out without having looked at the screen, and a target that is
\* up when the call starts is reported as found.
C28_PollsBeforeTimeout ==
    (wPc = "done" /\ wResult.status = "timeout") =>
        /\ Len(polls) >= 1
        /\ polls[1].ok /\ polls[1].found = 0

(***************************************************************************)
(* Device commands that fail.  runMaestroFlow returns the output of a      *)
(* failed run as a normal result when there is any (navigation.ts:67).     *)
(***************************************************************************)
\* C30: tapOnElement returns success, and scrollToElement counts a swipe,
\* only when the device command succeeded: a Maestro run that exits with a
\* failure, with output or without, ends the tap or the scroll as a failure.
C30_FailedCommandIsFailure ==
    /\ (tPc = "done" /\ tResult.status = "success") =>
           taps[Len(taps)].outcome = "done"
    /\ \A j \in SwipeEvents :
           log[j].outcome # "done" => sPc = "done" /\ sResult.status = "failed"

(***************************************************************************)
(* Log capture (src/unnamed/part_002): managePlatformLogs, manageBundler,  *)
(* startPlatformLog and the exit events of the child processes.  The three *)
(* module-level handles and the processes are one record while a handler   *)
(* runs; a handler runs without interruption up to its next await.         *)
(***************************************************************************)
LogPlatforms == {"android", "ios"}

Handles ==
    [android |-> androidLogProcess, ios |-> iosLogProcess,
     metro |-> metroProcess, procs |-> procs]

\* the handler's assignments, written back
Store(st) ==
    /\ androidLogProcess' = st.android
    /\ iosLogProcess' = st.ios
    /\ metroProcess' = st.metro
    /\ procs' = st.procs

\* spawn(cmd, args, ...): a new child process, running
Spawn(ps, what) == Append(ps, [runs |-> what, state |-> "running"])

\* child.kill(): the signal is sent, the exit event comes later
Kill(ps, i) ==
    IF i # 0 /\ ps[i].state = "running" THEN [ps EXCEPT ![i].state = "killed"]
    ELSE ps

\* if (handle) { handle.kill(); handle = null; }
KillAndClear(st, which) ==
    IF st[which] # 0
    THEN [st EXCEPT !.procs = Kill(st.procs, st[which]), ![which] = 0]
    ELSE st

\* `if (logProcess) return`, else spawn, attach the exit handler, store
startPlatformLog(st, p) ==
    IF st[p] # 0 THEN st
    ELSE [st EXCEPT !.procs = Spawn(st.procs, p), ![p] = Len(st.procs) + 1]

\* managePlatformLogs(platform, action): no await inside, one step
managePlatformLogs(st, p, action) ==
    IF action = "stop" THEN KillAndClear(st, p) ELSE startPlatformLog(st, p)

\* manageBundler, `if (action === "stop" || action === "restart")` up to the
\* await of the port clean-up
StopBundler(st) ==
    KillAndClear(KillAndClear(KillAndClear(st, "metro"), "android"), "ios")

\* manageBundler, `if (action === "start" || action === "restart")`: Metro
\* is spawned and stored whatever metroProcess was; the command names the
\* platform whose logs are started, Android when it names none
StartBundler(st, names, autoStartPlatformLogs) ==
    LET withMetro == [st EXCEPT !.procs = Spawn(st.procs, "metro"),
                                !.metro = Len(st.procs) + 1]
    IN  IF ~autoStartPlatformLogs THEN withMetro
        ELSE startPlatformLog(withMetro,
                              IF names = "ios" THEN "ios" ELSE "android")

BundlerActions == {"start", "stop", "restart"}
CommandNames == {"android", "ios", "neither"}

InitLogs ==
    /\ query = NoCall /\ now = 0 /\ WaitIdle /\ ScrollIdle /\ XIdle
    /\ platform = "android" /\ rawDoc = NoCall /\ hierarchy = NotStarted
    /\ rehierarchy = NotStarted /\ stage = "idle"
    /\ androidLogProcess = 0 /\ iosLogProcess = 0 /\ metroProcess = 0
    /\ procs = <<>> /\ bPc = NoCall

LogsFrame == <<platform, pvars, query, now, wvars, svars, xvars>>

\* a managePlatformLogs tool call
ManagePlatformLogs ==
    /\ \E p \in LogPlatforms, action \in {"start", "stop"} :
         /\ action = "start" => Len(procs) < MaxSpawns
         /\ Store(managePlatformLogs(Handles, p, action))
    /\ UNCHANGED <<LogsFrame, bPc>>

\* a manageBundler tool call: "start" runs to its end, "stop" and "restart"
\* run to the await of the port clean-up
ManageBundler ==
    /\ bPc = NoCall
    /\ \E action \in BundlerActions, names \in CommandNames,
          autoStartPlatformLogs \in BOOLEAN :
         IF action = "start"
         THEN /\ Len(procs) + 2 <= MaxSpawns
              /\ Store(StartBundler(Handles, names, autoStartPlatformLogs))
              /\ UNCHANGED bPc
         ELSE /\ Store(StopBundler(Handles))
              /\ bPc' = [action |-> action, names |-> names,
                         autoStartPlatformLogs |-> autoStartPlatformLogs]
    /\ UNCHANGED LogsFrame

\* the port clean-up has ended: "stop" returns, "restart" starts
ManageBundlerResume ==
    /\ bPc # NoCall
    /\ IF bPc.action = "stop"
       THEN UNCHANGED <<androidLogProcess, iosLogProcess, metroProcess, procs>>
       ELSE /\ Len(procs) + 2 <= MaxSpawns
            /\ Store(StartBundler(Handles, bPc.names,
                                  bPc.autoStartPlatformLogs))
    /\ bPc' = NoCall
    /\ UNCHANGED LogsFrame

\* a child process exits, by itself or after kill(); the exit handler of a
\* log process clears the handle of its platform, whatever it holds
ProcessExit ==
    /\ \E i \in 1..Len(procs) :
         /\ procs[i].state # "exited"
         /\ procs' = [procs EXCEPT ![i].state = "exited"]
         /\ androidLogProcess' =
              IF procs[i].runs = "android" THEN 0 ELSE androidLogProcess
         /\ iosLogProcess' =
              IF procs[i].runs = "ios" THEN 0 ELSE iosLogProcess
    /\ UNCHANGED <<LogsFrame, metroProcess, bPc>>

NextLogs ==
    \/ ManagePlatformLogs
    \/ ManageBundler
    \/ ManageBundlerResume
    \/ ProcessExit

SpecLogs == InitLogs /\ [][NextLogs]_vars

LogHandle(p) == IF p = "android" THEN androidLogProcess ELSE iosLogProcess

\* the capture processes of a platform that are alive (not killed, not
\* exited)
LiveCaptures(p) ==
    {i \in 1..Len(procs) : procs[i].runs = p /\ procs[i].state = "running"}

\* C29: under every interleaving of managePlatformLogs and manageBundler
\* calls and exit events, each platform has at most one live log-capture
\* process, and the handle of the platform is non-null exactly when one is
\* alive (and then is that process): the exit of a stopped process does not
\* clear the handle of one started after it.
C29_OneLiveCapture ==
    \A p \in LogPlatforms :
        /\ Cardinality(LiveCaptures(p)) <= 1
        /\ (LogHandle(p) # 0) <=> (LiveCaptures(p) # {})
        /\ LogHandle(p) # 0 => LogHandle(p) \in LiveCaptures(p)

====
